---------------------------- MODULE Spec2Model ----------------------------
(***************************************************************************)
(* Model of the crop recommendation engine of the Indian Farmer Crop       *)
(* Recommendation System: the crop catalog (crops/crop_db.py), the soil    *)
(* compatibility scorer (soil/models.py), the season classifier            *)
(* (utils/seasons.py) and the recommendation engine                        *)
(* (recommendation/recommender.py).                                        *)
(*                                                                         *)
(* The engine is a library of pure functions over a read-only catalog, so  *)
(* the state is a call frame: the function called (fn), its arguments      *)
(* (args), the position of the call (pc) and the value it returned (ret).  *)
(*                                                                         *)
(* Numbers.  Python floats are modelled by exact rationals <<n, d>>, d > 0,*)
(* in lowest terms.  Soil pH is counted in hundredths of a pH unit, a      *)
(* regional suitability value in hundredths, daily temperatures and        *)
(* rainfall of a weather series in tenths of a degree / of a millimetre.   *)
(* A soil texture string is the sequence of its '-'-separated tokens:      *)
(* "Clay-Loam" is <<"Clay", "Loam">>, so str.split('-') is the set of the  *)
(* sequence's elements.  Python's None is the string "None" for scalars    *)
(* and the record NoSoil for a missing SoilInfo.                           *)
(***************************************************************************)
EXTENDS Integers, Sequences, FiniteSets, TLC

VARIABLES pc, fn, args, ret, regions, regions_file, calls, locals

vars == <<pc, fn, args, ret, regions, regions_file, calls, locals>>

\* the state outside the call frame: the RegionManager's catalog, the
\* regions file it is loaded from and saved to, and, for a request to
\* /recommend, the collaborator calls the handler has made and the handler's
\* local variables
managers == <<regions, regions_file, calls, locals>>

\* the engine's functions run without a RegionManager and outside a request;
\* the regions file is a record of its state ("absent", "corrupt" or "ok")
\* and the list of profiles it holds
AbsentFile == [state |-> "absent", regions |-> <<>>]
NoManager == regions = <<>> /\ regions_file = AbsentFile /\ calls = <<>> /\ locals = <<>>

----------------------------------------------------------------------------
(* Bounds of the input sets *)

\* soil pH inputs are 0.0, 0.5, ..., MaxPhIdx * 0.5
MaxPhIdx == 28

\* average temperatures 3.0, 10.5, ..., 3.0 + MaxTempIdx * 7.5 degrees
MaxTempIdx == 6

\* expected rainfall 0, 145, ..., MaxRainIdx * 145 mm for the suitability score
MaxRainIdx == 4

\* maximum dry spells 0, 3, ..., MaxDryIdx * 3 days
MaxDryIdx == 3

\* expected rainfall 0, 50, ..., MaxWaterRainIdx * 50 mm for the water score
MaxWaterRainIdx == 15

\* a weather series is one or two blocks of 1, 4 or MaxBlockLen equal days
MaxBlockLen == 8

\* the coordinate grid of the nearest-region searches has
\* (MaxGridIdx + 1)^2 points, 3 degrees apart
MaxGridIdx == 2

\* the rainfall series given to add_agri_features have up to MaxSeriesLen days
MaxSeriesLen == 6

\* days_threshold of is_season_transition runs over 0..MaxDaysThreshold
MaxDaysThreshold == 32

----------------------------------------------------------------------------
(* Exact rational arithmetic standing for Python float arithmetic *)

Abs(x) == IF x < 0 THEN -x ELSE x

RECURSIVE GCD(_, _)
GCD(a, b) == IF b = 0 THEN a ELSE GCD(b, a % b)

Rat(n, d) ==
  LET s == IF d < 0 THEN -1 ELSE 1
      g == GCD(Abs(n), Abs(d))
  IN  <<(s * n) \div g, (s * d) \div g>>

FromInt(i) == <<i, 1>>
RatAdd(a, b) == Rat(a[1] * b[2] + b[1] * a[2], a[2] * b[2])
RatSub(a, b) == Rat(a[1] * b[2] - b[1] * a[2], a[2] * b[2])
RatMul(a, b) == Rat(a[1] * b[1], a[2] * b[2])
RatDiv(a, b) == Rat(a[1] * b[2], a[2] * b[1])
RatLE(a, b) == a[1] * b[2] <= b[1] * a[2]
RatLT(a, b) == a[1] * b[2] < b[1] * a[2]
RatGE(a, b) == RatLE(b, a)
RatGT(a, b) == RatLT(b, a)
RatMin(a, b) == IF RatLE(a, b) THEN a ELSE b
RatMax(a, b) == IF RatGE(a, b) THEN a ELSE b

\* floor of n / d for d > 0
FloorDiv(n, d) == IF n >= 0 THEN n \div d ELSE -((-n + d - 1) \div d)

\* Python round(x, k) for x = a, in units of 1/scale (scale = 10^k):
\* round to nearest, ties to even
RoundTo(a, scale) ==
  LET n == a[1] * scale
      d == a[2]
      q == FloorDiv(n, d)
      r == n - q * d
  IN  IF 2 * r < d THEN q
      ELSE IF 2 * r > d THEN q + 1
      ELSE IF q % 2 = 0 THEN q ELSE q + 1

\* the elements of a sequence, and dict.get(key, default)
Range(s) == {s[i] : i \in DOMAIN s}
Get(f, k, default) == IF k \in DOMAIN f THEN f[k] ELSE default

----------------------------------------------------------------------------
(* The crop catalog, crops/crop_db.py *)

CROPS_DATA ==
  <<
    [crop_id |-> "BAJRA_01", duration_days |-> 75,
     temp_min |-> 20, temp_optimal_min |-> 25, temp_optimal_max |-> 35, temp_max |-> 42,
     water_requirement_mm |-> 400, drought_tolerance |-> "High", waterlogging_tolerance |-> "Low",
     soil_ph_min |-> 600, soil_ph_max |-> 800,
     suitable_soil_textures |-> <<<<"Sandy">>, <<"Sandy", "Loam">>, <<"Loam">>>>,
     regional_suitability |-> ("PUNE" :> 85 @@ "SOLAPUR" :> 90 @@ "NASHIK" :> 80 @@ "AHMEDNAGAR" :> 85 @@ "AURANGABAD" :> 88 @@ "JALGAON" :> 75 @@ "SANGLI" :> 82 @@ "KOLHAPUR" :> 70 @@ "SATARA" :> 78 @@ "LATUR" :> 90),
     successful_regions |-> {"SOLAPUR", "AURANGABAD", "LATUR", "AHMEDNAGAR"},
     seasons |-> <<"Kharif">>],
    [crop_id |-> "JOWAR_01", duration_days |-> 85,
     temp_min |-> 18, temp_optimal_min |-> 25, temp_optimal_max |-> 35, temp_max |-> 40,
     water_requirement_mm |-> 450, drought_tolerance |-> "High", waterlogging_tolerance |-> "Low",
     soil_ph_min |-> 550, soil_ph_max |-> 850,
     suitable_soil_textures |-> <<<<"Clay">>, <<"Clay", "Loam">>, <<"Loam">>>>,
     regional_suitability |-> ("PUNE" :> 88 @@ "SOLAPUR" :> 92 @@ "NASHIK" :> 85 @@ "AHMEDNAGAR" :> 90 @@ "AURANGABAD" :> 90 @@ "JALGAON" :> 82 @@ "SANGLI" :> 88 @@ "KOLHAPUR" :> 75 @@ "SATARA" :> 85 @@ "LATUR" :> 92),
     successful_regions |-> {"SOLAPUR", "AHMEDNAGAR", "AURANGABAD", "LATUR"},
     seasons |-> <<"Kharif", "Rabi">>],
    [crop_id |-> "RAGI_01", duration_days |-> 80,
     temp_min |-> 18, temp_optimal_min |-> 22, temp_optimal_max |-> 30, temp_max |-> 35,
     water_requirement_mm |-> 500, drought_tolerance |-> "Moderate", waterlogging_tolerance |-> "Low",
     soil_ph_min |-> 500, soil_ph_max |-> 820,
     suitable_soil_textures |-> <<<<"Sandy", "Loam">>, <<"Loam">>, <<"Clay", "Loam">>>>,
     regional_suitability |-> ("PUNE" :> 75 @@ "SOLAPUR" :> 70 @@ "NASHIK" :> 80 @@ "AHMEDNAGAR" :> 72 @@ "AURANGABAD" :> 70 @@ "JALGAON" :> 78 @@ "SANGLI" :> 75 @@ "KOLHAPUR" :> 85 @@ "SATARA" :> 82 @@ "LATUR" :> 68),
     successful_regions |-> {"KOLHAPUR", "SATARA", "NASHIK"},
     seasons |-> <<"Kharif">>],
    [crop_id |-> "FOXTAIL_01", duration_days |-> 70,
     temp_min |-> 20, temp_optimal_min |-> 25, temp_optimal_max |-> 32, temp_max |-> 38,
     water_requirement_mm |-> 350, drought_tolerance |-> "High", waterlogging_tolerance |-> "Low",
     soil_ph_min |-> 550, soil_ph_max |-> 750,
     suitable_soil_textures |-> <<<<"Sandy">>, <<"Sandy", "Loam">>, <<"Loam">>>>,
     regional_suitability |-> ("PUNE" :> 70 @@ "SOLAPUR" :> 75 @@ "NASHIK" :> 72 @@ "AHMEDNAGAR" :> 73 @@ "AURANGABAD" :> 75 @@ "JALGAON" :> 70 @@ "SANGLI" :> 72 @@ "KOLHAPUR" :> 68 @@ "SATARA" :> 70 @@ "LATUR" :> 75),
     successful_regions |-> {"SOLAPUR", "AURANGABAD", "LATUR"},
     seasons |-> <<"Kharif">>],
    [crop_id |-> "MOONG_01", duration_days |-> 70,
     temp_min |-> 20, temp_optimal_min |-> 25, temp_optimal_max |-> 35, temp_max |-> 40,
     water_requirement_mm |-> 350, drought_tolerance |-> "Moderate", waterlogging_tolerance |-> "Low",
     soil_ph_min |-> 600, soil_ph_max |-> 750,
     suitable_soil_textures |-> <<<<"Sandy", "Loam">>, <<"Loam">>, <<"Clay", "Loam">>>>,
     regional_suitability |-> ("PUNE" :> 82 @@ "SOLAPUR" :> 85 @@ "NASHIK" :> 80 @@ "AHMEDNAGAR" :> 83 @@ "AURANGABAD" :> 85 @@ "JALGAON" :> 82 @@ "SANGLI" :> 80 @@ "KOLHAPUR" :> 75 @@ "SATARA" :> 78 @@ "LATUR" :> 85),
     successful_regions |-> {"SOLAPUR", "AURANGABAD", "AHMEDNAGAR", "LATUR"},
     seasons |-> <<"Kharif", "Rabi">>],
    [crop_id |-> "URAD_01", duration_days |-> 75,
     temp_min |-> 20, temp_optimal_min |-> 25, temp_optimal_max |-> 35, temp_max |-> 40,
     water_requirement_mm |-> 400, drought_tolerance |-> "Moderate", waterlogging_tolerance |-> "Low",
     soil_ph_min |-> 650, soil_ph_max |-> 750,
     suitable_soil_textures |-> <<<<"Loam">>, <<"Clay", "Loam">>, <<"Sandy", "Loam">>>>,
     regional_suitability |-> ("PUNE" :> 78 @@ "SOLAPUR" :> 80 @@ "NASHIK" :> 75 @@ "AHMEDNAGAR" :> 78 @@ "AURANGABAD" :> 80 @@ "JALGAON" :> 77 @@ "SANGLI" :> 75 @@ "KOLHAPUR" :> 72 @@ "SATARA" :> 75 @@ "LATUR" :> 80),
     successful_regions |-> {"SOLAPUR", "AURANGABAD", "AHMEDNAGAR"},
     seasons |-> <<"Kharif">>],
    [crop_id |-> "COWPEA_01", duration_days |-> 75,
     temp_min |-> 20, temp_optimal_min |-> 25, temp_optimal_max |-> 35, temp_max |-> 40,
     water_requirement_mm |-> 400, drought_tolerance |-> "High", waterlogging_tolerance |-> "Moderate",
     soil_ph_min |-> 550, soil_ph_max |-> 750,
     suitable_soil_textures |-> <<<<"Sandy">>, <<"Sandy", "Loam">>, <<"Loam">>, <<"Clay", "Loam">>>>,
     regional_suitability |-> ("PUNE" :> 80 @@ "SOLAPUR" :> 82 @@ "NASHIK" :> 78 @@ "AHMEDNAGAR" :> 80 @@ "AURANGABAD" :> 82 @@ "JALGAON" :> 80 @@ "SANGLI" :> 78 @@ "KOLHAPUR" :> 75 @@ "SATARA" :> 77 @@ "LATUR" :> 82),
     successful_regions |-> {"SOLAPUR", "AURANGABAD", "JALGAON"},
     seasons |-> <<"Kharif">>],
    [crop_id |-> "GUAR_01", duration_days |-> 85,
     temp_min |-> 20, temp_optimal_min |-> 25, temp_optimal_max |-> 35, temp_max |-> 42,
     water_requirement_mm |-> 350, drought_tolerance |-> "High", waterlogging_tolerance |-> "Low",
     soil_ph_min |-> 600, soil_ph_max |-> 850,
     suitable_soil_textures |-> <<<<"Sandy">>, <<"Sandy", "Loam">>, <<"Loam">>>>,
     regional_suitability |-> ("PUNE" :> 75 @@ "SOLAPUR" :> 85 @@ "NASHIK" :> 70 @@ "AHMEDNAGAR" :> 78 @@ "AURANGABAD" :> 82 @@ "JALGAON" :> 72 @@ "SANGLI" :> 75 @@ "KOLHAPUR" :> 65 @@ "SATARA" :> 70 @@ "LATUR" :> 85),
     successful_regions |-> {"SOLAPUR", "AURANGABAD", "LATUR"},
     seasons |-> <<"Kharif">>],
    [crop_id |-> "SESAME_01", duration_days |-> 85,
     temp_min |-> 20, temp_optimal_min |-> 25, temp_optimal_max |-> 35, temp_max |-> 40,
     water_requirement_mm |-> 400, drought_tolerance |-> "Moderate", waterlogging_tolerance |-> "Low",
     soil_ph_min |-> 550, soil_ph_max |-> 800,
     suitable_soil_textures |-> <<<<"Sandy", "Loam">>, <<"Loam">>, <<"Clay", "Loam">>>>,
     regional_suitability |-> ("PUNE" :> 75 @@ "SOLAPUR" :> 78 @@ "NASHIK" :> 72 @@ "AHMEDNAGAR" :> 75 @@ "AURANGABAD" :> 77 @@ "JALGAON" :> 73 @@ "SANGLI" :> 75 @@ "KOLHAPUR" :> 70 @@ "SATARA" :> 72 @@ "LATUR" :> 78),
     successful_regions |-> {"SOLAPUR", "AURANGABAD", "AHMEDNAGAR"},
     seasons |-> <<"Kharif", "Rabi">>],
    [crop_id |-> "SUNFLOWER_01", duration_days |-> 85,
     temp_min |-> 15, temp_optimal_min |-> 20, temp_optimal_max |-> 30, temp_max |-> 35,
     water_requirement_mm |-> 500, drought_tolerance |-> "Moderate", waterlogging_tolerance |-> "Low",
     soil_ph_min |-> 600, soil_ph_max |-> 750,
     suitable_soil_textures |-> <<<<"Loam">>, <<"Clay", "Loam">>, <<"Sandy", "Loam">>>>,
     regional_suitability |-> ("PUNE" :> 80 @@ "SOLAPUR" :> 75 @@ "NASHIK" :> 82 @@ "AHMEDNAGAR" :> 80 @@ "AURANGABAD" :> 75 @@ "JALGAON" :> 80 @@ "SANGLI" :> 78 @@ "KOLHAPUR" :> 82 @@ "SATARA" :> 80 @@ "LATUR" :> 73),
     successful_regions |-> {"PUNE", "NASHIK", "KOLHAPUR", "SATARA"},
     seasons |-> <<"Kharif", "Rabi">>],
    [crop_id |-> "SOYBEAN_01", duration_days |-> 85,
     temp_min |-> 20, temp_optimal_min |-> 25, temp_optimal_max |-> 30, temp_max |-> 35,
     water_requirement_mm |-> 500, drought_tolerance |-> "Moderate", waterlogging_tolerance |-> "Moderate",
     soil_ph_min |-> 600, soil_ph_max |-> 750,
     suitable_soil_textures |-> <<<<"Loam">>, <<"Clay", "Loam">>, <<"Sandy", "Loam">>>>,
     regional_suitability |-> ("PUNE" :> 78 @@ "SOLAPUR" :> 72 @@ "NASHIK" :> 80 @@ "AHMEDNAGAR" :> 77 @@ "AURANGABAD" :> 73 @@ "JALGAON" :> 82 @@ "SANGLI" :> 75 @@ "KOLHAPUR" :> 80 @@ "SATARA" :> 78 @@ "LATUR" :> 70),
     successful_regions |-> {"JALGAON", "NASHIK", "KOLHAPUR"},
     seasons |-> <<"Kharif">>],
    [crop_id |-> "TOMATO_01", duration_days |-> 75,
     temp_min |-> 15, temp_optimal_min |-> 20, temp_optimal_max |-> 28, temp_max |-> 35,
     water_requirement_mm |-> 600, drought_tolerance |-> "Low", waterlogging_tolerance |-> "Low",
     soil_ph_min |-> 600, soil_ph_max |-> 700,
     suitable_soil_textures |-> <<<<"Loam">>, <<"Sandy", "Loam">>, <<"Clay", "Loam">>>>,
     regional_suitability |-> ("PUNE" :> 85 @@ "SOLAPUR" :> 70 @@ "NASHIK" :> 88 @@ "AHMEDNAGAR" :> 80 @@ "AURANGABAD" :> 72 @@ "JALGAON" :> 82 @@ "SANGLI" :> 78 @@ "KOLHAPUR" :> 85 @@ "SATARA" :> 83 @@ "LATUR" :> 68),
     successful_regions |-> {"PUNE", "NASHIK", "KOLHAPUR", "SATARA"},
     seasons |-> <<"Kharif", "Rabi">>],
    [crop_id |-> "BRINJAL_01", duration_days |-> 80,
     temp_min |-> 18, temp_optimal_min |-> 22, temp_optimal_max |-> 30, temp_max |-> 38,
     water_requirement_mm |-> 550, drought_tolerance |-> "Moderate", waterlogging_tolerance |-> "Low",
     soil_ph_min |-> 550, soil_ph_max |-> 700,
     suitable_soil_textures |-> <<<<"Loam">>, <<"Sandy", "Loam">>, <<"Clay", "Loam">>>>,
     regional_suitability |-> ("PUNE" :> 82 @@ "SOLAPUR" :> 75 @@ "NASHIK" :> 85 @@ "AHMEDNAGAR" :> 80 @@ "AURANGABAD" :> 75 @@ "JALGAON" :> 82 @@ "SANGLI" :> 80 @@ "KOLHAPUR" :> 85 @@ "SATARA" :> 82 @@ "LATUR" :> 72),
     successful_regions |-> {"PUNE", "NASHIK", "KOLHAPUR", "SATARA"},
     seasons |-> <<"Kharif", "Rabi">>],
    [crop_id |-> "OKRA_01", duration_days |-> 70,
     temp_min |-> 20, temp_optimal_min |-> 25, temp_optimal_max |-> 35, temp_max |-> 40,
     water_requirement_mm |-> 500, drought_tolerance |-> "Moderate", waterlogging_tolerance |-> "Low",
     soil_ph_min |-> 600, soil_ph_max |-> 750,
     suitable_soil_textures |-> <<<<"Loam">>, <<"Sandy", "Loam">>, <<"Clay", "Loam">>>>,
     regional_suitability |-> ("PUNE" :> 80 @@ "SOLAPUR" :> 78 @@ "NASHIK" :> 82 @@ "AHMEDNAGAR" :> 80 @@ "AURANGABAD" :> 78 @@ "JALGAON" :> 82 @@ "SANGLI" :> 80 @@ "KOLHAPUR" :> 82 @@ "SATARA" :> 80 @@ "LATUR" :> 75),
     successful_regions |-> {"PUNE", "NASHIK", "JALGAON", "KOLHAPUR"},
     seasons |-> <<"Kharif", "Rabi">>],
    [crop_id |-> "BOTTLEGOURD_01", duration_days |-> 75,
     temp_min |-> 18, temp_optimal_min |-> 22, temp_optimal_max |-> 32, temp_max |-> 38,
     water_requirement_mm |-> 550, drought_tolerance |-> "Moderate", waterlogging_tolerance |-> "Moderate",
     soil_ph_min |-> 600, soil_ph_max |-> 750,
     suitable_soil_textures |-> <<<<"Loam">>, <<"Sandy", "Loam">>, <<"Clay", "Loam">>>>,
     regional_suitability |-> ("PUNE" :> 78 @@ "SOLAPUR" :> 72 @@ "NASHIK" :> 80 @@ "AHMEDNAGAR" :> 77 @@ "AURANGABAD" :> 73 @@ "JALGAON" :> 80 @@ "SANGLI" :> 75 @@ "KOLHAPUR" :> 80 @@ "SATARA" :> 78 @@ "LATUR" :> 70),
     successful_regions |-> {"PUNE", "NASHIK", "JALGAON", "KOLHAPUR"},
     seasons |-> <<"Kharif", "Rabi">>]
  >>

\* the catalog with the pH limits of its first crop exchanged
crops_values_ph_swapped ==
  [i \in DOMAIN CROPS_DATA |->
     IF i = 1 THEN [CROPS_DATA[1] EXCEPT !.soil_ph_min = CROPS_DATA[1].soil_ph_max,
                                         !.soil_ph_max = CROPS_DATA[1].soil_ph_min]
     ELSE CROPS_DATA[i]]

\* CropDatabase.crops: dict keyed by crop_id, in insertion (catalog) order
crops_values == CROPS_DATA

\* Two crops outside the shipped catalog, as any caller of the scoring
\* functions may construct them (CropInfo is a plain dataclass)
EXTRA_CROPS ==
  <<
    [crop_id |-> "FRAGILE_X", duration_days |-> 80,
     temp_min |-> 18, temp_optimal_min |-> 22, temp_optimal_max |-> 28, temp_max |-> 32,
     water_requirement_mm |-> 600, drought_tolerance |-> "Low", waterlogging_tolerance |-> "Low",
     soil_ph_min |-> 600, soil_ph_max |-> 700,
     suitable_soil_textures |-> <<<<"Sandy">>>>,
     regional_suitability |-> ("PUNE" :> 0 @@ "SOLAPUR" :> 100),
     successful_regions |-> {},
     seasons |-> <<"Rabi">>],
    [crop_id |-> "HARDY_X", duration_days |-> 90,
     temp_min |-> 10, temp_optimal_min |-> 10, temp_optimal_max |-> 40, temp_max |-> 40,
     water_requirement_mm |-> 0, drought_tolerance |-> "High", waterlogging_tolerance |-> "High",
     soil_ph_min |-> 700, soil_ph_max |-> 700,
     suitable_soil_textures |-> <<<<"Clay">>, <<"Loam">>, <<"Sandy">>, <<"Clay", "Loam">>, <<"Sandy", "Loam">>>>,
     regional_suitability |-> ("PUNE" :> 100 @@ "SOLAPUR" :> 30),
     successful_regions |-> {"SOLAPUR"},
     seasons |-> <<"Kharif", "Rabi", "Zaid">>]
  >>

AllCrops == Range(CROPS_DATA) \cup Range(EXTRA_CROPS)

----------------------------------------------------------------------------
(* Soil profiles, soil/models.py *)

TEXTURES == {<<"Clay">>, <<"Loam">>, <<"Sandy">>, <<"Clay", "Loam">>, <<"Sandy", "Loam">>}
DRAINAGES == {"Poor", "Medium", "Good", "None"}
ORGANIC_MATTER == {"Low", "Medium", "High"}

NoSoil == [none |-> TRUE]

PhValues == {50 * k : k \in 0..MaxPhIdx}

SoilInfo == [texture : TEXTURES, ph : PhValues, organic_matter : ORGANIC_MATTER, drainage : DRAINAGES]

\* RegionProfile.get_default_soil() of the PUNE default region
PUNE_default_soil ==
  [texture |-> <<"Clay", "Loam">>, ph |-> 720, organic_matter |-> "Medium", drainage |-> "Medium"]

\* calculate_ph_score with the upper end of the acceptable band forgotten
calculate_ph_score_open_above(crop, ph) ==
  LET ph_range == crop.soil_ph_max - crop.soil_ph_min
      optimal_margin == Rat(ph_range * 2, 10)
      optimal_min == RatAdd(FromInt(crop.soil_ph_min), optimal_margin)
      optimal_max == RatSub(FromInt(crop.soil_ph_max), optimal_margin)
  IN  IF RatLE(optimal_min, FromInt(ph)) /\ RatLE(FromInt(ph), optimal_max) THEN 100
      ELSE IF crop.soil_ph_min <= ph THEN 70
      ELSE 0

calculate_ph_score(crop, ph) ==
  LET ph_range == crop.soil_ph_max - crop.soil_ph_min
      \* optimal_margin = ph_range * 0.2, kept exact as a rational
      optimal_margin == Rat(ph_range * 2, 10)
      optimal_min == RatAdd(FromInt(crop.soil_ph_min), optimal_margin)
      optimal_max == RatSub(FromInt(crop.soil_ph_max), optimal_margin)
  IN  IF RatLE(optimal_min, FromInt(ph)) /\ RatLE(FromInt(ph), optimal_max) THEN 100
      ELSE IF crop.soil_ph_min <= ph /\ ph <= crop.soil_ph_max THEN 70
      ELSE 0

is_related_texture(texture, suitable_textures) ==
  LET texture_parts == Range(texture)
  IN  \E i \in DOMAIN suitable_textures :
        texture_parts \cap Range(suitable_textures[i]) # {}

\* calculate_texture_bonus without the related-texture case
calculate_texture_bonus_unrelated(crop, texture) ==
  IF texture \in Range(crop.suitable_soil_textures) THEN 20 ELSE -50

calculate_texture_bonus(crop, texture) ==
  IF texture \in Range(crop.suitable_soil_textures) THEN 20
  ELSE IF is_related_texture(texture, crop.suitable_soil_textures) THEN 0
  ELSE -50

calculate_drainage_bonus(crop, soil) ==
  IF soil.drainage = "None" THEN 5
  ELSE
    LET drainage_map == [Poor |-> 1, Medium |-> 2, Good |-> 3]
        drainage_value == Get(drainage_map, soil.drainage, 2)
    IN  IF crop.waterlogging_tolerance = "High"
          THEN IF drainage_value = 1 THEN 10
               ELSE IF drainage_value = 2 THEN 8
               ELSE 5
        ELSE IF crop.waterlogging_tolerance = "Moderate"
          THEN IF drainage_value = 2 THEN 10 ELSE 5
        ELSE IF drainage_value = 3 THEN 10
             ELSE IF drainage_value = 2 THEN 5
             ELSE 0

Min(a, b) == IF a <= b THEN a ELSE b
Max(a, b) == IF a >= b THEN a ELSE b

\* the locals of calculate_soil_compatibility_score; .score is its result
soil_compatibility_frame(crop, soil) ==
  LET ph_score == calculate_ph_score(crop, soil.ph)
      texture_bonus == calculate_texture_bonus(crop, soil.texture)
      drainage_bonus == calculate_drainage_bonus(crop, soil)
  IN  [ph_score |-> ph_score, texture_bonus |-> texture_bonus,
       drainage_bonus |-> drainage_bonus,
       score |-> Min(ph_score + texture_bonus + drainage_bonus, 100)]

calculate_soil_compatibility_score(crop, soil) == soil_compatibility_frame(crop, soil).score

\* the default of the parameter min_score of CropDatabase.filter_by_soil
filter_by_soil_min_score == 50

\* CropDatabase.filter_by_soil(crops, soil, min_score)
filter_by_soil(crops, soil, min_score) ==
  LET compatible(crop) == calculate_soil_compatibility_score(crop, soil) >= min_score
  IN  SelectSeq(crops, compatible)


----------------------------------------------------------------------------
(* Season classifier, utils/seasons.py *)

\* detect_season with the Rabi branch reaching into April
detect_season_branch_long_rabi(date) ==
  LET month == date.month
      day == date.day
  IN  IF (month = 6 /\ day >= 1) \/ (6 < month /\ month < 10) \/ (month = 10 /\ day <= 31)
        THEN 1
      ELSE IF (month = 11 /\ day >= 1) \/ (month = 12) \/ (month <= 4) \/ (month = 3 /\ day <= 31)
        THEN 2
      ELSE IF month \in {4, 5}
        THEN 3
      ELSE 4

\* detect_season with a Zaid branch for April alone
detect_season_branch_short_zaid(date) ==
  LET month == date.month
      day == date.day
  IN  IF (month = 6 /\ day >= 1) \/ (6 < month /\ month < 10) \/ (month = 10 /\ day <= 31)
        THEN 1
      ELSE IF (month = 11 /\ day >= 1) \/ (month = 12) \/ (month <= 2) \/ (month = 3 /\ day <= 31)
        THEN 2
      ELSE IF month \in {4}
        THEN 3
      ELSE 4

\* the branch of detect_season taken for a date: 1 Kharif, 2 Rabi, 3 Zaid,
\* 4 the final "default to Kharif" branch
detect_season_branch(date) ==
  LET month == date.month
      day == date.day
  IN  IF (month = 6 /\ day >= 1) \/ (6 < month /\ month < 10) \/ (month = 10 /\ day <= 31)
        THEN 1
      ELSE IF (month = 11 /\ day >= 1) \/ (month = 12) \/ (month <= 2) \/ (month = 3 /\ day <= 31)
        THEN 2
      ELSE IF month \in {4, 5}
        THEN 3
      ELSE 4

detect_season(date) ==
  LET branch == detect_season_branch(date)
  IN  IF branch = 1 THEN "Kharif"
      ELSE IF branch = 2 THEN "Rabi"
      ELSE IF branch = 3 THEN "Zaid"
      ELSE "Kharif"

\* is_season_transition(date, days_threshold): the pair (is_transition,
\* next_season)
is_season_transition(date, days_threshold) ==
  LET current_season == detect_season(date)
      month == date.month
      day == date.day
      found(next_season) == [is_transition |-> TRUE, next_season |-> next_season]
  IN  IF current_season = "Kharif" /\ month = 10 /\ day >= 31 - days_threshold
        THEN found("Rabi")
      ELSE IF current_season = "Rabi" /\ month = 3 /\ day >= 31 - days_threshold
        THEN found("Zaid")
      ELSE IF current_season = "Zaid" /\ month = 5 /\ day >= 31 - days_threshold
        THEN found("Kharif")
      ELSE [is_transition |-> FALSE, next_season |-> "None"]

\* Python floats are IEEE-754 doubles.  The double nearest to a decimal
\* literal differs from it by this many fifths of its unit in the last place:
\* 0.85, 0.95, 1.10, 1.0, 0.8 and 0.6
float_error ==
  (Rat(85, 100) :> -1) @@ (Rat(95, 100) :> -2) @@ (Rat(110, 100) :> 2) @@ (FromInt(1) :> 0)
    @@ (Rat(8, 10) :> 2) @@ (Rat(6, 10) :> -1)

\* the largest power of two that is at most x, for x >= 1/2: the unit in the
\* last place of a double x is binade(x) * 2^-52
RECURSIVE power_of_two_below(_, _)
power_of_two_below(x, p) ==
  IF RatLE(RatMul(FromInt(2), p), x) THEN power_of_two_below(x, RatMul(FromInt(2), p)) ELSE p

binade(x) == power_of_two_below(x, Rat(1, 2))

\* base * multiplier in doubles, for an integer base and a multiplier
\* literal whose decimal product is a double: the product of the base and the
\* double multiplier is rounded to the nearest double, which is the decimal
\* product (ulps 0) unless the error carried by the multiplier exceeds half a
\* unit in the last place of the product; then it is the double next to it
float_mul(base, multiplier) ==
  LET product == RatMul(FromInt(base), multiplier)
      error == float_error[multiplier]
  IN  IF base > 0 /\ RatGT(RatMul(FromInt(2 * base * Abs(error)), binade(multiplier)),
                           RatMul(FromInt(5), binade(product)))
        THEN [value |-> product, ulps |-> IF error > 0 THEN 1 ELSE -1]
      ELSE [value |-> product, ulps |-> 0]

\* water_available / adjusted_requirement >= bound in doubles, for a ratio
\* given by its decimal value and a bound literal in [0.5, 1]: away from the
\* bound the doubles compare as the decimal values do; at equal decimal
\* values a divisor that is exact gives the double of the bound itself, a
\* divisor one unit too low gives more, and a divisor one unit too high gives
\* the double of the bound only if the quotient stays within half a unit
\* of it
float_ratio_ge(water_ratio, divisor, bound) ==
  IF water_ratio # bound THEN RatGT(water_ratio, bound)
  ELSE IF divisor.ulps <= 0 THEN TRUE
  ELSE RatLE(RatDiv(RatMul(bound, RatMul(FromInt(2), binade(divisor.value))), divisor.value),
             RatSub(Rat(1, 2), Rat(float_error[bound], 5)))

\* get_season_water_adjustment(season, base_requirement), in mm, a double
get_season_water_adjustment(season, base_requirement) ==
  LET adjustments == [Kharif |-> Rat(85, 100), Rabi |-> Rat(95, 100), Zaid |-> Rat(110, 100)]
      multiplier == Get(adjustments, season, FromInt(1))
  IN  float_mul(base_requirement, multiplier)

----------------------------------------------------------------------------
(* Recommendation engine, recommendation/recommender.py *)

\* calculate_temperature_score losing 60 points, not 40, over an outer band
calculate_temperature_score_steep(crop, avg_temp) ==
  IF RatLE(FromInt(crop.temp_optimal_min), avg_temp) /\ RatLE(avg_temp, FromInt(crop.temp_optimal_max))
    THEN FromInt(100)
  ELSE IF RatLE(FromInt(crop.temp_min), avg_temp) /\ RatLE(avg_temp, FromInt(crop.temp_max))
    THEN LET below == RatLT(avg_temp, FromInt(crop.temp_optimal_min))
             range_size == IF below THEN crop.temp_optimal_min - crop.temp_min
                           ELSE crop.temp_max - crop.temp_optimal_max
             distance == IF below THEN RatSub(FromInt(crop.temp_optimal_min), avg_temp)
                         ELSE RatSub(avg_temp, FromInt(crop.temp_optimal_max))
         IN  IF range_size > 0
               THEN RatSub(FromInt(100), RatMul(RatDiv(distance, FromInt(range_size)), FromInt(60)))
             ELSE FromInt(60)
  ELSE FromInt(0)

\* calculate_temperature_score(crop, avg_temp), in degrees
calculate_temperature_score(crop, avg_temp) ==
  IF RatLE(FromInt(crop.temp_optimal_min), avg_temp) /\ RatLE(avg_temp, FromInt(crop.temp_optimal_max))
    THEN FromInt(100)
  ELSE IF RatLE(FromInt(crop.temp_min), avg_temp) /\ RatLE(avg_temp, FromInt(crop.temp_max))
    THEN LET below == RatLT(avg_temp, FromInt(crop.temp_optimal_min))
             range_size == IF below THEN crop.temp_optimal_min - crop.temp_min
                           ELSE crop.temp_max - crop.temp_optimal_max
             distance == IF below THEN RatSub(FromInt(crop.temp_optimal_min), avg_temp)
                         ELSE RatSub(avg_temp, FromInt(crop.temp_optimal_max))
         IN  IF range_size > 0
               THEN RatSub(FromInt(100), RatMul(RatDiv(distance, FromInt(range_size)), FromInt(40)))
             ELSE FromInt(60)
  ELSE FromInt(0)

\* water_available / requirement if requirement > 0 else 1.0
water_ratio_of(water_available, requirement) ==
  IF RatGT(requirement, FromInt(0)) THEN RatDiv(water_available, requirement) ELSE FromInt(1)

\* calculate_water_score with 95 for 75 in the moderate-deficit band
calculate_water_score_typo(crop, expected_rainfall, irrigation_available, season) ==
  LET adjusted_requirement == get_season_water_adjustment(season, crop.water_requirement_mm)
      irrigation_buffer == IF irrigation_available THEN 50 ELSE 0
      water_available == RatAdd(expected_rainfall, FromInt(irrigation_buffer))
      water_ratio == water_ratio_of(water_available, adjusted_requirement.value)
  IN  IF float_ratio_ge(water_ratio, adjusted_requirement, FromInt(1)) THEN 100
      ELSE IF float_ratio_ge(water_ratio, adjusted_requirement, Rat(8, 10))
        THEN IF crop.drought_tolerance = "High" THEN 90
             ELSE IF crop.drought_tolerance = "Moderate" THEN 75
             ELSE 60
      ELSE IF float_ratio_ge(water_ratio, adjusted_requirement, Rat(6, 10))
        THEN IF crop.drought_tolerance = "High" THEN 95
             ELSE IF crop.drought_tolerance = "Moderate" THEN 50
             ELSE 30
      ELSE IF crop.drought_tolerance = "High" THEN 50
           ELSE 0

calculate_water_score(crop, expected_rainfall, irrigation_available, season) ==
  LET adjusted_requirement == get_season_water_adjustment(season, crop.water_requirement_mm)
      irrigation_buffer == IF irrigation_available THEN 50 ELSE 0
      water_available == RatAdd(expected_rainfall, FromInt(irrigation_buffer))
      water_ratio == water_ratio_of(water_available, adjusted_requirement.value)
  IN  IF float_ratio_ge(water_ratio, adjusted_requirement, FromInt(1)) THEN 100
      ELSE IF float_ratio_ge(water_ratio, adjusted_requirement, Rat(8, 10))
        THEN IF crop.drought_tolerance = "High" THEN 90
             ELSE IF crop.drought_tolerance = "Moderate" THEN 75
             ELSE 60
      ELSE IF float_ratio_ge(water_ratio, adjusted_requirement, Rat(6, 10))
        THEN IF crop.drought_tolerance = "High" THEN 75
             ELSE IF crop.drought_tolerance = "Moderate" THEN 50
             ELSE 30
      ELSE IF crop.drought_tolerance = "High" THEN 50
           ELSE 0

calculate_drought_tolerance_score(crop, max_dry_spell) ==
  IF max_dry_spell <= 4 THEN 100
  ELSE IF max_dry_spell <= 7
    THEN IF crop.drought_tolerance = "High" THEN 100
         ELSE IF crop.drought_tolerance = "Moderate" THEN 70
         ELSE 40
  ELSE IF crop.drought_tolerance = "High" THEN 80
       ELSE IF crop.drought_tolerance = "Moderate" THEN 40
       ELSE 0

\* "if region_id:" and "if soil:" of the engine: None and "" are falsy, a
\* SoilInfo instance is always truthy
region_given(region_id) == region_id \notin {"None", ""}
soil_given(soil) == soil # NoSoil

\* the weights with soil and water exchanged
suitability_weights_swapped ==
  [temp |-> 25, water |-> 15, soil |-> 25, regional |-> 15, seasonal |-> 10, drought |-> 10]

\* the six weights of calculate_suitability_score, in percent
suitability_weights ==
  [temp |-> 25, water |-> 25, soil |-> 15, regional |-> 15, seasonal |-> 10, drought |-> 10]

\* the locals of calculate_suitability_score; .score is its result
suitability_frame(crop, avg_temp, expected_rainfall, max_dry_spell, season, region_id, soil, irrigation_available) ==
  LET w == suitability_weights
      temp_score == calculate_temperature_score(crop, avg_temp)
      water_score == calculate_water_score(crop, expected_rainfall, irrigation_available, season)
      soil_score == IF soil_given(soil) THEN calculate_soil_compatibility_score(crop, soil) ELSE 70
      regional_score == IF region_given(region_id)
                          THEN Get(crop.regional_suitability, region_id, 50)
                        ELSE 50
      seasonal_score == IF season \in Range(crop.seasons) THEN 100 ELSE 50
      drought_score == calculate_drought_tolerance_score(crop, max_dry_spell)
      score == RatAdd(RatMul(temp_score, Rat(w.temp, 100)),
                      Rat(water_score * w.water + soil_score * w.soil
                          + regional_score * w.regional + seasonal_score * w.seasonal
                          + drought_score * w.drought, 100))
  IN  [temp_score |-> temp_score, water_score |-> water_score, soil_score |-> soil_score,
       regional_score |-> regional_score, seasonal_score |-> seasonal_score,
       drought_score |-> drought_score,
       score |-> RatMin(score, FromInt(100))]

calculate_suitability_score(crop, avg_temp, expected_rainfall, max_dry_spell, season, region_id, soil, irrigation_available) ==
  suitability_frame(crop, avg_temp, expected_rainfall, max_dry_spell, season,
                    region_id, soil, irrigation_available).score

\* determine_risk_level with the water check skipped once a drought risk is
\* noted
determine_risk_level_elif(crop, max_dry_spell, water_available) ==
  LET drought == IF max_dry_spell > 7
                   THEN IF crop.drought_tolerance = "Low" THEN <<"High drought risk">>
                        ELSE IF crop.drought_tolerance = "Moderate" THEN <<"Moderate drought risk">>
                        ELSE <<>>
                 ELSE <<>>
      water_ratio == water_ratio_of(water_available, FromInt(crop.water_requirement_mm))
      risks == IF drought = <<>> /\ RatLT(water_ratio, Rat(8, 10))
                 THEN <<"Water deficit risk">>
               ELSE drought
  IN  IF risks = <<>> THEN <<"Low risk">>
      ELSE IF Len(risks) = 1 THEN risks
      ELSE <<"Multiple risks: ">> \o risks

\* determine_risk_level(crop, max_dry_spell, water_available): the note is the
\* sequence of its phrases, "Multiple risks: " first when there are several
determine_risk_level(crop, max_dry_spell, water_available) ==
  LET drought == IF max_dry_spell > 7
                   THEN IF crop.drought_tolerance = "Low" THEN <<"High drought risk">>
                        ELSE IF crop.drought_tolerance = "Moderate" THEN <<"Moderate drought risk">>
                        ELSE <<>>
                 ELSE <<>>
      water_ratio == water_ratio_of(water_available, FromInt(crop.water_requirement_mm))
      risks == IF RatLT(water_ratio, Rat(8, 10)) THEN drought \o <<"Water deficit risk">> ELSE drought
  IN  IF risks = <<>> THEN <<"Low risk">>
      ELSE IF Len(risks) = 1 THEN risks
      ELSE <<"Multiple risks: ">> \o risks


----------------------------------------------------------------------------
(* Weather series and derived features, preprocessing/features.py *)

\* the dry-day test with "at most 2 mm" for "less than 2 mm"
dry_day_inclusive(df, i) == df[i].rainfall <= 20

\* a daily record holds temp_max, temp_min (tenths of a degree) and rainfall
\* (tenths of a millimetre)
dry_day(df, i) == df[i].rainfall < 20

\* (df["dry_day"] != df["dry_day"].shift()).cumsum(): the number of the run
\* of equal dry_day flags that day i belongs to; day 1 differs from the
\* missing value shifted in before it
run_id(df, i) ==
  1 + Cardinality({k \in 2..i : dry_day(df, k) # dry_day(df, k - 1)})

\* df["dry_day"].astype(int).groupby(run id).cumsum() at day i
dry_spell_days(df, i) ==
  Cardinality({k \in 1..i : run_id(df, k) = run_id(df, i) /\ dry_day(df, k)})

\* add_agri_features(df): temp_avg in degrees; gdd and rainfall_7d are
\* read by no function of the engine and are left out of the record
add_agri_features(df) ==
  [i \in DOMAIN df |->
     [temp_max |-> df[i].temp_max, temp_min |-> df[i].temp_min, rainfall |-> df[i].rainfall,
      temp_avg |-> Rat(df[i].temp_max + df[i].temp_min, 20),
      dry_day |-> dry_day(df, i),
      dry_spell_days |-> dry_spell_days(df, i)]]

\* pandas Series.mean() and .max() of a non-empty column; the sum and the
\* maximum are taken over halves of the column
RECURSIVE SumRat(_, _, _)
SumRat(values, lo, hi) ==
  IF lo > hi THEN FromInt(0)
  ELSE IF lo = hi THEN values[lo]
  ELSE LET mid == (lo + hi) \div 2
       IN  RatAdd(SumRat(values, lo, mid), SumRat(values, mid + 1, hi))

mean(values) == RatDiv(SumRat(values, 1, Len(values)), FromInt(Len(values)))

RECURSIVE MaxIn(_, _, _)
MaxIn(values, lo, hi) ==
  IF lo = hi THEN values[lo]
  ELSE LET mid == (lo + hi) \div 2
       IN  Max(MaxIn(values, lo, mid), MaxIn(values, mid + 1, hi))

max_of(values) == MaxIn(values, 1, Len(values))

\* is_suitable_for_region with "and" for "or"
is_suitable_for_region_and(crop, region_id, threshold) ==
  /\ region_id \in crop.successful_regions
  /\ Get(crop.regional_suitability, region_id, 0) >= threshold

\* CropInfo.is_suitable_for_region and .is_suitable_for_season, crops/models.py
is_suitable_for_region(crop, region_id, threshold) ==
  \/ region_id \in crop.successful_regions
  \/ Get(crop.regional_suitability, region_id, 0) >= threshold

is_suitable_for_season(crop, season) == season \in Range(crop.seasons)

\* CropDatabase.get_crops_by_season
get_crops_by_season(season) ==
  LET suitable(crop) == is_suitable_for_season(crop, season)
  IN  SelectSeq(crops_values, suitable)

\* an insertion that puts a record before the records of equal score
RECURSIVE insert_by_score_unstable(_, _)
insert_by_score_unstable(sorted, x) ==
  IF sorted = <<>> THEN <<x>>
  ELSE IF Head(sorted).suitability_score > x.suitability_score
    THEN <<Head(sorted)>> \o insert_by_score_unstable(Tail(sorted), x)
  ELSE <<x>> \o sorted

\* list.sort(key=suitability_score, reverse=True): a stable sort, equal keys
\* keep their order of insertion
RECURSIVE insert_by_score(_, _)
insert_by_score(sorted, x) ==
  IF sorted = <<>> THEN <<x>>
  ELSE IF Head(sorted).suitability_score >= x.suitability_score
    THEN <<Head(sorted)>> \o insert_by_score(Tail(sorted), x)
  ELSE <<x>> \o sorted

RECURSIVE sort_by_score(_)
sort_by_score(recs) ==
  IF recs = <<>> THEN <<>>
  ELSE insert_by_score(sort_by_score(SubSeq(recs, 1, Len(recs) - 1)), recs[Len(recs)])

\* the weather statistics of recommend_crops: avg_temp (degrees),
\* expected_rainfall (mm) with the climatological fallback, max_dry_spell
\* the columns df["temp_avg"] (degrees), df["rainfall"] (mm) and
\* df["dry_spell_days"]
temp_avg_column(df) == [i \in DOMAIN df |-> df[i].temp_avg]
rainfall_column(df) == [i \in DOMAIN df |-> Rat(df[i].rainfall, 10)]
dry_spell_column(df) == [i \in DOMAIN df |-> df[i].dry_spell_days]

\* the statistics of recommend_crops without the climatological fallback
weather_statistics_unfloored(weather_df, planning_days) ==
  LET avg_daily_rain == mean(rainfall_column(weather_df))
      rain == avg_daily_rain
  IN  [avg_temp |-> mean(temp_avg_column(weather_df)),
       expected_rainfall |-> RatMul(rain, FromInt(planning_days)),
       max_dry_spell |-> max_of(dry_spell_column(weather_df))]

weather_statistics(weather_df, planning_days) ==
  LET avg_daily_rain == mean(rainfall_column(weather_df))
      rain == IF RatLT(avg_daily_rain, Rat(5, 10)) THEN Rat(15, 10) ELSE avg_daily_rain
  IN  [avg_temp |-> mean(temp_avg_column(weather_df)),
       expected_rainfall |-> RatMul(rain, FromInt(planning_days)),
       max_dry_spell |-> max_of(dry_spell_column(weather_df))]

\* the filters of recommend_crops: season, then region (threshold 0.5) when a
\* region is given, then soil (min_score 40) when a soil is given
eligible_crops(season, region_id, soil) ==
  LET season_crops == get_crops_by_season(season)
      in_region(crop) == is_suitable_for_region(crop, region_id, 50)
      region_crops == IF region_given(region_id) THEN SelectSeq(season_crops, in_region)
                      ELSE season_crops
  IN  IF soil_given(soil) THEN filter_by_soil(region_crops, soil, 40) ELSE region_crops

\* forecast_days_17_90 with the temperature adjusted by the trend itself
forecast_days_17_90_trend_sized(weather_df, planning_days) ==
  LET n == Len(weather_df)
      temps == temp_avg_column(weather_df)
      avg_temp == mean(temps)
      temp_trend == RatSub(mean(SubSeq(temps, Max(1, n - 4), n)),
                           mean(SubSeq(temps, 1, Min(5, n))))
      avg_daily_rain == mean(rainfall_column(weather_df))
      dry_spell_risk == max_of(dry_spell_column(weather_df))
      temp_adjustment == temp_trend
      expected_temp == RatAdd(avg_temp, temp_adjustment)
      rain == IF RatLT(avg_daily_rain, Rat(5, 10)) THEN Rat(15, 10) ELSE avg_daily_rain
      expected_rainfall == RatMul(rain, FromInt(planning_days))
  IN  [expected_avg_temp |-> RoundTo(expected_temp, 100),
       expected_rainfall_mm |-> RoundTo(expected_rainfall, 10),
       dry_spell_risk |-> IF dry_spell_risk > 7 THEN "High"
                          ELSE IF dry_spell_risk > 4 THEN "Moderate"
                          ELSE "Low"]

\* forecast_days_17_90(weather_df, planning_days), forecasting/medium_range.py:
\* expected_avg_temp in hundredths of a degree, expected_rainfall_mm in
\* tenths of a millimetre; iloc[:5] and iloc[-5:] are the first and the last
\* five days, or all days of a shorter series
forecast_days_17_90(weather_df, planning_days) ==
  LET n == Len(weather_df)
      temps == temp_avg_column(weather_df)
      avg_temp == mean(temps)
      temp_trend == RatSub(mean(SubSeq(temps, Max(1, n - 4), n)),
                           mean(SubSeq(temps, 1, Min(5, n))))
      avg_daily_rain == mean(rainfall_column(weather_df))
      dry_spell_risk == max_of(dry_spell_column(weather_df))
      temp_adjustment == IF RatGT(temp_trend, FromInt(0)) THEN FromInt(1)
                         ELSE IF RatLT(temp_trend, FromInt(0)) THEN FromInt(-1)
                         ELSE FromInt(0)
      expected_temp == RatAdd(avg_temp, temp_adjustment)
      rain == IF RatLT(avg_daily_rain, Rat(5, 10)) THEN Rat(15, 10) ELSE avg_daily_rain
      expected_rainfall == RatMul(rain, FromInt(planning_days))
  IN  [expected_avg_temp |-> RoundTo(expected_temp, 100),
       expected_rainfall_mm |-> RoundTo(expected_rainfall, 10),
       dry_spell_risk |-> IF dry_spell_risk > 7 THEN "High"
                          ELSE IF dry_spell_risk > 4 THEN "Moderate"
                          ELSE "Low"]

\* an entry of the recommendations list whose irrigation figure counts the
\* irrigation buffer as available water
recommendation_buffered(crop, stats, season, region_id, soil, irrigation_available) ==
  LET score == calculate_suitability_score(crop, stats.avg_temp, stats.expected_rainfall,
                 stats.max_dry_spell, season, region_id, soil, irrigation_available)
      irrigation_buffer == IF irrigation_available THEN 50 ELSE 0
      water_available == RatAdd(stats.expected_rainfall, FromInt(irrigation_buffer))
      irrigation_needed == RatMax(FromInt(0),
                             RatSub(FromInt(crop.water_requirement_mm), water_available))
  IN  [crop_id |-> crop.crop_id,
       suitability_score |-> RoundTo(score, 100),
       expected_rainfall_mm |-> RoundTo(stats.expected_rainfall, 10),
       water_required_mm |-> crop.water_requirement_mm,
       irrigation_needed_mm |-> RoundTo(irrigation_needed, 10),
       growth_duration_days |-> crop.duration_days,
       risk_note |-> determine_risk_level(crop, stats.max_dry_spell, water_available),
       drought_tolerance |-> crop.drought_tolerance,
       regional_suitability |-> IF region_given(region_id)
                                  THEN Get(crop.regional_suitability, region_id, 50)
                                ELSE 50]

\* one entry of the recommendations list; scores are rounded as the code
\* rounds them: suitability_score in hundredths, rainfall and irrigation
\* figures in tenths of a millimetre
recommendation(crop, stats, season, region_id, soil, irrigation_available) ==
  LET score == calculate_suitability_score(crop, stats.avg_temp, stats.expected_rainfall,
                 stats.max_dry_spell, season, region_id, soil, irrigation_available)
      irrigation_buffer == IF irrigation_available THEN 50 ELSE 0
      water_available == RatAdd(stats.expected_rainfall, FromInt(irrigation_buffer))
      irrigation_needed == RatMax(FromInt(0),
                             RatSub(FromInt(crop.water_requirement_mm), stats.expected_rainfall))
  IN  [crop_id |-> crop.crop_id,
       suitability_score |-> RoundTo(score, 100),
       expected_rainfall_mm |-> RoundTo(stats.expected_rainfall, 10),
       water_required_mm |-> crop.water_requirement_mm,
       irrigation_needed_mm |-> RoundTo(irrigation_needed, 10),
       growth_duration_days |-> crop.duration_days,
       risk_note |-> determine_risk_level(crop, stats.max_dry_spell, water_available),
       drought_tolerance |-> crop.drought_tolerance,
       regional_suitability |-> IF region_given(region_id)
                                  THEN Get(crop.regional_suitability, region_id, 50)
                                ELSE 50]

recommend_crops(weather_df, season, region_id, soil, irrigation_available, planning_days) ==
  LET stats == weather_statistics(weather_df, planning_days)
      season_crops == eligible_crops(season, region_id, soil)
      recommendations ==
        [i \in DOMAIN season_crops |->
           recommendation(season_crops[i], stats, season, region_id, soil, irrigation_available)]
  IN  sort_by_score(recommendations)


----------------------------------------------------------------------------
(* Region catalog, data/regions.py *)

\* Coordinates are counted in ten-thousandths of a degree, angles and the
\* values of the trigonometric functions in billionths (ONE is 1.0), and
\* distances in metres.  The float arithmetic of _haversine_distance is
\* carried out in this fixed point; over the Indian subcontinent the result
\* is within 0.5 km of the float result.
ONE == 1000000000

\* floor(a * b / ONE) for 0 <= a, b and a * b / ONE < 2^31, from three-digit
\* parts so that no intermediate product leaves 32 bits
MulFix(a, b) ==
  LET a2 == a \div 1000000
      a1 == (a \div 1000) % 1000
      a0 == a % 1000
      b2 == b \div 1000000
      b1 == (b \div 1000) % 1000
      b0 == b % 1000
      t2 == a2 * b0 + a1 * b1 + a0 * b2
      t1 == a1 * b0 + a0 * b1
      t0 == a0 * b0
  IN  a2 * b2 * 1000 + (a2 * b1 + a1 * b2) + (t2 + (t1 + t0 \div 1000) \div 1000) \div 1000

\* math.radians of a non-negative angle: degrees * pi / 180, pi / 180 being
\* 0.01745329252
radians(deg) == deg * 1745 + (deg * 329) \div 1000 + (deg * 252) \div 1000000

\* half of an angle, rounded towards zero
half(x) == IF x >= 0 THEN x \div 2 ELSE -((-x) \div 2)

\* math.sin and math.cos by their Taylor series, for angles below one radian
sin(x) ==
  LET y == Abs(x)
      y2 == MulFix(y, y)
      y3 == MulFix(y2, y)
      y5 == MulFix(y3, y2)
      y7 == MulFix(y5, y2)
      s == y - y3 \div 6 + y5 \div 120 - y7 \div 5040
  IN  IF x < 0 THEN -s ELSE s

cos(x) ==
  LET y == Abs(x)
      y2 == MulFix(y, y)
      y4 == MulFix(y2, y2)
      y6 == MulFix(y4, y2)
      y8 == MulFix(y4, y4)
      y10 == MulFix(y8, y2)
  IN  ONE - y2 \div 2 + y4 \div 24 - y6 \div 720 + y8 \div 40320 - y10 \div 3628800

\* the integer square root of n < 2^31, by bisection of lo..hi
RECURSIVE isqrt(_, _, _)
isqrt(n, lo, hi) ==
  IF lo >= hi THEN lo
  ELSE LET mid == (lo + hi + 1) \div 2
       IN  IF mid * mid <= n THEN isqrt(n, mid, hi) ELSE isqrt(n, lo, mid - 1)

\* math.sqrt: a is scaled by 100^k to use the 32 bits, the root of ONE is
\* 31622.7766
RECURSIVE sqrt_scaled(_, _)
sqrt_scaled(a, k) ==
  IF a < 21474836 /\ k < 4 THEN sqrt_scaled(a * 100, k + 1)
  ELSE LET r == isqrt(a, 0, 46340)
           v == r * 31622 + (r * 7766) \div 10000
       IN  IF k = 0 THEN v ELSE IF k = 1 THEN v \div 10 ELSE IF k = 2 THEN v \div 100
           ELSE IF k = 3 THEN v \div 1000 ELSE v \div 10000

sqrt(a) == IF a = 0 THEN 0 ELSE sqrt_scaled(a, 0)

\* math.asin by its Taylor series, for arguments below 0.5
asin(x) ==
  LET x2 == MulFix(x, x)
      x3 == MulFix(x2, x)
      x5 == MulFix(x3, x2)
      x7 == MulFix(x5, x2)
  IN  x + x3 \div 6 + (3 * x5) \div 40 + (15 * x7) \div 336

\* RegionManager._haversine_distance, in metres (R = 6371.0 km)
haversine_distance(lat1, lon1, lat2, lon2) ==
  LET lat1_rad == radians(lat1)
      lon1_rad == radians(lon1)
      lat2_rad == radians(lat2)
      lon2_rad == radians(lon2)
      dlat == lat2_rad - lat1_rad
      dlon == lon2_rad - lon1_rad
      sin_dlat == Abs(sin(half(dlat)))
      sin_dlon == Abs(sin(half(dlon)))
      a == MulFix(sin_dlat, sin_dlat)
             + MulFix(MulFix(cos(lat1_rad), cos(lat2_rad)), MulFix(sin_dlon, sin_dlon))
      c == 2 * asin(sqrt(a))
  IN  ((c \div 1000) * 6371) \div 1000

\* a RegionProfile: region_id, latitude, longitude and default_soil; name,
\* elevation, climate_zone, typical_soil_types and supported_seasons are
\* carried through unread and are left out
NoRegion == [none |-> TRUE]

\* the profiles of RegionManager._create_default_regions
default_regions ==
  <<
   [region_id |-> "PUNE", latitude |-> 185204, longitude |-> 738567,
    default_soil |-> [texture |-> <<"Clay", "Loam">>, ph |-> 720, organic_matter |-> "Medium", drainage |-> "Medium"]],
   [region_id |-> "SOLAPUR", latitude |-> 176599, longitude |-> 759064,
    default_soil |-> [texture |-> <<"Clay">>, ph |-> 780, organic_matter |-> "Low", drainage |-> "Poor"]],
   [region_id |-> "NASHIK", latitude |-> 199975, longitude |-> 737898,
    default_soil |-> [texture |-> <<"Loam">>, ph |-> 680, organic_matter |-> "Medium", drainage |-> "Good"]],
   [region_id |-> "AHMEDNAGAR", latitude |-> 190948, longitude |-> 747480,
    default_soil |-> [texture |-> <<"Clay", "Loam">>, ph |-> 750, organic_matter |-> "Medium", drainage |-> "Medium"]],
   [region_id |-> "AURANGABAD", latitude |-> 198762, longitude |-> 753433,
    default_soil |-> [texture |-> <<"Clay">>, ph |-> 760, organic_matter |-> "Low", drainage |-> "Medium"]],
   [region_id |-> "JALGAON", latitude |-> 210077, longitude |-> 755626,
    default_soil |-> [texture |-> <<"Clay", "Loam">>, ph |-> 700, organic_matter |-> "Medium", drainage |-> "Good"]],
   [region_id |-> "SANGLI", latitude |-> 168524, longitude |-> 745815,
    default_soil |-> [texture |-> <<"Sandy">>, ph |-> 740, organic_matter |-> "Low", drainage |-> "Good"]],
   [region_id |-> "KOLHAPUR", latitude |-> 167050, longitude |-> 742433,
    default_soil |-> [texture |-> <<"Loam">>, ph |-> 650, organic_matter |-> "High", drainage |-> "Good"]],
   [region_id |-> "SATARA", latitude |-> 176805, longitude |-> 740183,
    default_soil |-> [texture |-> <<"Sandy", "Loam">>, ph |-> 680, organic_matter |-> "Medium", drainage |-> "Good"]],
   [region_id |-> "LATUR", latitude |-> 183983, longitude |-> 765604,
    default_soil |-> [texture |-> <<"Clay">>, ph |-> 790, organic_matter |-> "Low", drainage |-> "Poor"]]
  >>

\* self.regions[region.region_id] = region on a dict in insertion order: a
\* known id keeps its place, a new id goes to the end
dict_put(catalog, region) ==
  IF \E i \in DOMAIN catalog : catalog[i].region_id = region.region_id
    THEN [i \in DOMAIN catalog |->
            IF catalog[i].region_id = region.region_id THEN region ELSE catalog[i]]
  ELSE Append(catalog, region)

RECURSIVE dict_put_all(_, _)
dict_put_all(catalog, entries) ==
  IF entries = <<>> THEN catalog
  ELSE dict_put_all(dict_put(catalog, Head(entries)), Tail(entries))

\* RegionManager.save_regions: the file holds the list of the catalog's
\* profiles
save_regions(catalog) == [state |-> "ok", regions |-> catalog]

\* RegionManager.__init__ and ._load_regions: the catalog in memory and the
\* regions file after construction.  A missing file and a file that does not
\* parse both lead to _create_default_regions, which saves the defaults.
load_regions(file) ==
  IF file.state \in {"absent", "corrupt"}
    THEN [regions |-> dict_put_all(<<>>, default_regions), regions_file |-> save_regions(default_regions)]
  ELSE [regions |-> dict_put_all(<<>>, file.regions), regions_file |-> file]

\* RegionManager.get_region_profile: self.regions.get(region_id)
get_region_profile(catalog, region_id) ==
  IF \E i \in DOMAIN catalog : catalog[i].region_id = region_id
    THEN catalog[CHOOSE i \in DOMAIN catalog : catalog[i].region_id = region_id]
  ELSE NoRegion

\* float('inf')
Infinity == 2147483647

\* the body of the loop of find_nearest_region: a region strictly nearer
\* than the best so far replaces it
nearer(best, region, distance) ==
  IF distance < best.min_distance
    THEN [nearest_region |-> region, min_distance |-> distance]
  ELSE best

\* the loop of find_nearest_region over self.regions.values(), from entry i
RECURSIVE nearest_scan(_, _, _, _, _)
nearest_scan(catalog, i, latitude, longitude, best) ==
  IF i > Len(catalog) THEN best
  ELSE nearest_scan(catalog, i + 1, latitude, longitude,
         nearer(best, catalog[i],
                haversine_distance(latitude, longitude, catalog[i].latitude, catalog[i].longitude)))

\* the return of find_nearest_region: the nearest region if it is within
\* max_distance_km, None otherwise
within_range(best, max_distance_km) ==
  IF best.min_distance <= max_distance_km * 1000 THEN best.nearest_region ELSE NoRegion

\* find_nearest_region without the max_distance_km test
find_nearest_region_unbounded(catalog, latitude, longitude, max_distance_km) ==
  IF catalog = <<>> THEN NoRegion
  ELSE nearest_scan(catalog, 1, latitude, longitude,
         [nearest_region |-> NoRegion, min_distance |-> Infinity]).nearest_region

\* RegionManager.find_nearest_region; max_distance_km in kilometres
find_nearest_region(catalog, latitude, longitude, max_distance_km) ==
  IF catalog = <<>> THEN NoRegion
  ELSE within_range(nearest_scan(catalog, 1, latitude, longitude,
                                 [nearest_region |-> NoRegion, min_distance |-> Infinity]),
                    max_distance_km)

----------------------------------------------------------------------------
(* The /recommend endpoint, api/app.py *)

\* An Optional[float] of the request is a sequence of at most one number; a
\* missing string is "None".  if x: is false for None and for 0.
truthy(x) == x # <<>> /\ x[1] # 0

NoResponse == [none |-> TRUE]
NoException == [none |-> TRUE]

\* raise HTTPException(status_code, detail); a detail is the list of the
\* pieces of its text
HTTPException(status_code, detail) ==
  [type |-> "HTTPException", status_code |-> status_code, detail |-> detail]

\* an exception of another type, raised inside the call named raised_by
Raised(type, raised_by) == [type |-> type, raised_by |-> raised_by]

\* the except clauses of recommend: an HTTPException is raised again and
\* becomes the response; any other exception e becomes status 500 with
\* detail "Internal server error: " + str(e)
error_response(exception) ==
  IF exception.type = "HTTPException"
    THEN [status_code |-> exception.status_code, detail |-> exception.detail]
  ELSE [status_code |-> 500, detail |-> <<"Internal server error: ", exception.type>>]

\* RegionProfile.get_default_soil: None without a default_soil, SoilInfo(**d)
\* otherwise, which raises TypeError unless the keys of d are texture, ph,
\* organic_matter and possibly drainage (default "Medium")
get_default_soil(region) ==
  LET data == region.default_soil
  IN  IF data = NoSoil THEN NoSoil
      ELSE IF /\ {"texture", "ph", "organic_matter"} \subseteq DOMAIN data
              /\ DOMAIN data \subseteq {"texture", "ph", "organic_matter", "drainage"}
        THEN [texture |-> data.texture, ph |-> data.ph,
              organic_matter |-> data.organic_matter,
              drainage |-> Get(data, "drainage", "Medium")]
      ELSE Raised("TypeError", "get_default_soil")

\* step 1 of recommend: the region, latitude and longitude, or the exception
determine_region(catalog, request) ==
  IF request.region_id # "None"
    THEN LET region == get_region_profile(catalog, request.region_id)
         IN  IF region = NoRegion
               THEN [exception |-> HTTPException(404, <<"Region ", request.region_id, " not found">>)]
             ELSE [exception |-> NoException, region |-> region,
                   latitude |-> region.latitude, longitude |-> region.longitude]
  ELSE IF truthy(request.latitude) /\ truthy(request.longitude)
    THEN LET region == find_nearest_region(catalog, request.latitude[1], request.longitude[1], 100)
         IN  IF region = NoRegion
               THEN [exception |->
                       HTTPException(404, <<"No region found within 100km of specified coordinates">>)]
             ELSE [exception |-> NoException, region |-> region,
                   latitude |-> request.latitude[1], longitude |-> request.longitude[1]]
  ELSE [exception |->
          HTTPException(400, <<"Either region_id or latitude/longitude must be provided">>)]

\* step 2 without the test of the season string
determine_season_unchecked(request, current_date) ==
  IF request.season # "None"
    THEN [exception |-> NoException, season |-> request.season]
  ELSE [exception |-> NoException, season |-> detect_season(current_date)]

\* step 2: the season asked for, if it is one of the three, or the season
\* of the current date
determine_season(request, current_date) ==
  IF request.season # "None"
    THEN IF request.season \notin {"Kharif", "Rabi", "Zaid"}
           THEN [exception |->
                   HTTPException(400, <<"Invalid season. Must be Kharif, Rabi, or Zaid">>)]
         ELSE [exception |-> NoException, season |-> request.season]
  ELSE [exception |-> NoException, season |-> detect_season(current_date)]

\* format_season_guidance: which of its two messages, and the seasons named
format_season_guidance(current_season, is_transition, next_season) ==
  IF is_transition /\ next_season # "None"
    THEN <<"late season", current_season, next_season>>
  ELSE <<"current season", current_season>>

\* step 3: the soil of the request, else the region's default, else a
\* neutral loam
determine_soil(request, region) ==
  IF request.soil # NoSoil THEN [exception |-> NoException, soil |-> request.soil]
  ELSE LET soil == get_default_soil(region)
       IN  IF soil = NoSoil
             THEN [exception |-> NoException,
                   soil |-> [texture |-> <<"Loam">>, ph |-> 700, organic_matter |-> "Medium",
                             drainage |-> "Medium"]]
           ELSE IF "type" \in DOMAIN soil THEN [exception |-> soil]
           ELSE [exception |-> NoException, soil |-> soil]

\* step 7: irrigation_map.get(request.irrigation, True)
irrigation_available_of(irrigation) ==
  Get([None |-> FALSE, Limited |-> TRUE, Full |-> TRUE], irrigation, TRUE)

\* steps 5 to 9: the response built from the fetched series
build_response(request, state, fetched) ==
  LET weather == add_agri_features(fetched)
      forecast == forecast_days_17_90(weather, request.planning_days)
      crops == recommend_crops(weather, state.season, state.region.region_id, state.soil,
                               irrigation_available_of(request.irrigation),
                               request.planning_days)
  IN  [status_code |-> 200,
       region |-> [region_id |-> state.region.region_id,
                   latitude |-> state.latitude, longitude |-> state.longitude],
       season |-> [current |-> state.season, is_transition |-> state.is_transition,
                   next_season |-> state.next_season, guidance |-> state.season_guidance],
       soil |-> [texture |-> state.soil.texture, ph |-> state.soil.ph,
                 organic_matter |-> state.soil.organic_matter,
                 drainage |-> state.soil.drainage,
                 source |-> IF request.soil # NoSoil THEN "user_provided"
                            ELSE "region_default"],
       irrigation |-> request.irrigation,
       medium_range_forecast |-> forecast,
       recommended_crops |-> SubSeq(crops, 1, Min(10, Len(crops))),
       total_crops_analyzed |-> Len(crops)]

----------------------------------------------------------------------------
(* Inputs *)

SEASONS == {"Kharif", "Rabi", "Zaid"}

\* any string may be passed as season to the scoring functions
SeasonInputs == SEASONS \cup {"Summer"}

\* no region, a catalog region, and a region no crop knows
RegionInputs == {"None", "PUNE", "MUMBAI"}

TempInputs == {Rat(6 + 15 * k, 2) : k \in 0..MaxTempIdx}
RainInputs == {FromInt(145 * k) : k \in 0..MaxRainIdx}
DrySpellInputs == {3 * k : k \in 0..MaxDryIdx}
WaterRainInputs == {FromInt(50 * k) : k \in 0..MaxWaterRainIdx}

\* the rainfall of the water score: WaterRainInputs and the rainfall at which
\* the ratio of a Zaid crop needing 350 or 400 mm is exactly 0.6, 0.8 or 1.0
WaterScoreRainInputs ==
  WaterRainInputs \cup {FromInt(231), FromInt(264), FromInt(352), FromInt(440)}

\* the average temperatures of the temperature score: every half degree
\* from 8.0 to 45.0, which takes in every edge of every crop's band
TemperatureScoreInputs == {Rat(k, 2) : k \in 16..90}

\* the dry spells of the risk note: DrySpellInputs and both sides of the
\* 7-day limit
RiskDrySpellInputs == DrySpellInputs \cup {7, 8}

SoilInputs ==
  {NoSoil,
   PUNE_default_soil,
   [texture |-> <<"Clay">>, ph |-> 950, organic_matter |-> "Low", drainage |-> "Poor"],
   [texture |-> <<"Sandy">>, ph |-> 650, organic_matter |-> "High", drainage |-> "Good"]}

MinScoreInputs == {0, 40, 50}

CropListInputs ==
  {crops_values, get_crops_by_season("Rabi"), SubSeq(crops_values, 1, 4), <<>>}

\* raw daily records: a hot dry day, a mild wet day (27 degrees, 8 mm) and a
\* cool day with a drizzle below the 2 mm dry-day threshold
DayKinds ==
  {[temp_max |-> 380, temp_min |-> 240, rainfall |-> 0],
   [temp_max |-> 310, temp_min |-> 230, rainfall |-> 80],
   [temp_max |-> 220, temp_min |-> 120, rainfall |-> 15]}

Block(day, n) == [i \in 1..n |-> day]
Blocks == {Block(day, n) : day \in DayKinds, n \in {1, 4, MaxBlockLen}}

\* the 90-day series of the PUNE scenario: 27 degrees and 8 mm every day
PuneScenarioSeries == Block([temp_max |-> 310, temp_min |-> 230, rainfall |-> 80], 90)

\* days that differ from a day of DayKinds in rainfall alone: a hot day with
\* 1 mm, mild days with 3 mm and with 3.5 mm
RainfallContrastDayKinds ==
  {[temp_max |-> 380, temp_min |-> 240, rainfall |-> 10],
   [temp_max |-> 310, temp_min |-> 230, rainfall |-> 30],
   [temp_max |-> 310, temp_min |-> 230, rainfall |-> 35]}

RainfallContrastSeries ==
  {Block(day, n) : day \in RainfallContrastDayKinds, n \in {1, 4, MaxBlockLen}}

RawSeriesInputs ==
  Blocks \cup {a \o b : a \in Blocks, b \in Blocks} \cup {PuneScenarioSeries}
    \cup RainfallContrastSeries

WeatherInputs == {add_agri_features(df) : df \in RawSeriesInputs}

PlanningDaysInputs == {30, 90}

\* the dates of a leap year
DaysInMonth(month) ==
  IF month = 2 THEN 29 ELSE IF month \in {4, 6, 9, 11} THEN 30 ELSE 31

Calendar == {[month |-> m, day |-> d] : m \in 1..12, d \in 1..31} \cap
            {date \in [month : 1..12, day : 1..31] : date.day <= DaysInMonth(date.month)}

----------------------------------------------------------------------------
(* Soil scorer calls *)

InitSoil ==
  /\ NoManager
  /\ pc = "call"
  /\ ret = "None"
  /\ \/ /\ fn = "calculate_soil_compatibility_score"
        /\ args \in [crop : AllCrops, soil : SoilInfo]
     \/ /\ fn = "filter_by_soil"
        /\ args \in [crops : CropListInputs, soil : SoilInfo, min_score : MinScoreInputs]
     \/ /\ fn = "filter_by_soil"
        /\ args \in [crops : CropListInputs, soil : SoilInfo]

CalculateSoilCompatibilityScore ==
  /\ pc = "call"
  /\ fn = "calculate_soil_compatibility_score"
  /\ ret' = soil_compatibility_frame(args.crop, args.soil)
  /\ pc' = "return"
  /\ UNCHANGED <<fn, args>>
  /\ UNCHANGED managers

FilterBySoil ==
  /\ pc = "call"
  /\ fn = "filter_by_soil"
  /\ \E min_score \in {Get(args, "min_score", filter_by_soil_min_score)} :
       /\ locals' = [min_score |-> min_score]
       /\ ret' = filter_by_soil(args.crops, args.soil, min_score)
  /\ pc' = "return"
  /\ UNCHANGED <<fn, args, regions, regions_file, calls>>

NextSoil == CalculateSoilCompatibilityScore \/ FilterBySoil

SpecSoil == InitSoil /\ [][NextSoil]_vars

----------------------------------------------------------------------------
(* Scoring calls *)

InitScore ==
  /\ NoManager
  /\ pc = "call"
  /\ \/ /\ fn = "calculate_suitability_score"
        /\ ret = "None"
        /\ args \in [crop : AllCrops, avg_temp : TempInputs, expected_rainfall : RainInputs,
                     max_dry_spell : DrySpellInputs, season : SeasonInputs,
                     region_id : RegionInputs, soil : SoilInputs,
                     irrigation_available : BOOLEAN]
     \/ /\ fn = "calculate_water_score"
        /\ ret = <<>>
        /\ args \in [crop : AllCrops, expected_rainfall : WaterScoreRainInputs,
                     irrigation_available : BOOLEAN, season : SeasonInputs]
     \/ /\ fn = "determine_risk_level"
        /\ ret = <<>>
        /\ args \in [crop : AllCrops, max_dry_spell : RiskDrySpellInputs,
                     water_available : WaterRainInputs]
     \/ /\ fn = "calculate_temperature_score"
        /\ ret = <<>>
        /\ args \in [crop : AllCrops, avg_temp : TemperatureScoreInputs]

CalculateSuitabilityScore ==
  /\ pc = "call"
  /\ fn = "calculate_suitability_score"
  /\ ret' = suitability_frame(args.crop, args.avg_temp, args.expected_rainfall,
                              args.max_dry_spell, args.season, args.region_id,
                              args.soil, args.irrigation_available)
  /\ pc' = "return"
  /\ UNCHANGED <<fn, args>>
  /\ UNCHANGED managers

\* calculate_water_score is called for the same crop, season and irrigation
\* flag at a rainfall and then at a rainfall that is not lower; ret lists
\* the calls made so far
CalculateWaterScore ==
  /\ pc = "call"
  /\ fn = "calculate_water_score"
  /\ ret' = Append(ret, [expected_rainfall |-> args.expected_rainfall,
                         score |-> calculate_water_score(args.crop, args.expected_rainfall,
                                     args.irrigation_available, args.season)])
  /\ IF Len(ret) = 0
       THEN /\ pc' = "call"
            /\ \E r \in WaterScoreRainInputs :
                 /\ RatLE(args.expected_rainfall, r)
                 /\ args' = [args EXCEPT !.expected_rainfall = r]
     ELSE /\ pc' = "return"
          /\ args' = args
  /\ UNCHANGED fn
  /\ UNCHANGED managers

DetermineRiskLevel ==
  /\ pc = "call"
  /\ fn = "determine_risk_level"
  /\ ret' = determine_risk_level(args.crop, args.max_dry_spell, args.water_available)
  /\ pc' = "return"
  /\ UNCHANGED <<fn, args>>
  /\ UNCHANGED managers

CalculateTemperatureScore ==
  /\ pc = "call"
  /\ fn = "calculate_temperature_score"
  /\ ret' = calculate_temperature_score(args.crop, args.avg_temp)
  /\ pc' = "return"
  /\ UNCHANGED <<fn, args>>
  /\ UNCHANGED managers

NextScore ==
  \/ CalculateSuitabilityScore
  \/ CalculateWaterScore
  \/ DetermineRiskLevel
  \/ CalculateTemperatureScore

SpecScore == InitScore /\ [][NextScore]_vars

----------------------------------------------------------------------------
(* Season classifier calls *)

DaysThresholdInputs == 0..MaxDaysThreshold

InitSeason ==
  /\ NoManager
  /\ pc = "call"
  /\ \/ /\ fn = "detect_season"
        /\ ret = "None"
        /\ args \in [date : Calendar]
     \/ /\ fn = "is_season_transition"
        /\ ret = "None"
        /\ args \in [date : Calendar, days_threshold : DaysThresholdInputs]

DetectSeason ==
  /\ pc = "call"
  /\ fn = "detect_season"
  /\ ret' = [season |-> detect_season(args.date), branch |-> detect_season_branch(args.date)]
  /\ pc' = "return"
  /\ UNCHANGED <<fn, args>>
  /\ UNCHANGED managers

IsSeasonTransition ==
  /\ pc = "call"
  /\ fn = "is_season_transition"
  /\ ret' = is_season_transition(args.date, args.days_threshold)
  /\ pc' = "return"
  /\ UNCHANGED <<fn, args>>
  /\ UNCHANGED managers

NextSeason == DetectSeason \/ IsSeasonTransition

SpecSeason == InitSeason /\ [][NextSeason]_vars

----------------------------------------------------------------------------
(* Recommendation calls *)

InitRecommend ==
  /\ NoManager
  /\ pc = "call"
  /\ ret = "None"
  /\ \/ /\ fn = "recommend_crops"
        /\ args \in [weather_df : WeatherInputs, season : SEASONS, region_id : RegionInputs,
                     soil : SoilInputs, irrigation_available : BOOLEAN,
                     planning_days : PlanningDaysInputs]
     \/ /\ fn = "forecast_days_17_90"
        /\ args \in [weather_df : WeatherInputs, planning_days : PlanningDaysInputs]

RecommendCrops ==
  /\ pc = "call"
  /\ fn = "recommend_crops"
  /\ ret' = recommend_crops(args.weather_df, args.season, args.region_id, args.soil,
                            args.irrigation_available, args.planning_days)
  /\ pc' = "return"
  /\ UNCHANGED <<fn, args>>
  /\ UNCHANGED managers

ForecastDays ==
  /\ pc = "call"
  /\ fn = "forecast_days_17_90"
  /\ ret' = forecast_days_17_90(args.weather_df, args.planning_days)
  /\ pc' = "return"
  /\ UNCHANGED <<fn, args>>
  /\ UNCHANGED managers

NextRecommend == RecommendCrops \/ ForecastDays

SpecRecommend == InitRecommend /\ [][NextRecommend]_vars

----------------------------------------------------------------------------
(* Preprocessing calls *)

\* daily rainfall of 0, 1.5, 2.0 (the dry-day threshold) and 5.0 mm
RainfallKinds == {0, 15, 20, 50}

RainfallSeries(n) == [1..n -> RainfallKinds]

\* raw series of 0 to MaxSeriesLen days of 27 degrees with any rainfall
FeatureInputs ==
  {[i \in DOMAIN rain |-> [temp_max |-> 310, temp_min |-> 230, rainfall |-> rain[i]]] :
     rain \in UNION {RainfallSeries(n) : n \in 0..MaxSeriesLen}}

InitFeatures ==
  /\ NoManager
  /\ pc = "call"
  /\ fn = "add_agri_features"
  /\ ret = <<>>
  /\ args \in [df : FeatureInputs]

AddAgriFeatures ==
  /\ pc = "call"
  /\ fn = "add_agri_features"
  /\ ret' = add_agri_features(args.df)
  /\ pc' = "return"
  /\ UNCHANGED <<fn, args>>
  /\ UNCHANGED managers

NextFeatures == AddAgriFeatures

SpecFeatures == InitFeatures /\ [][NextFeatures]_vars

----------------------------------------------------------------------------
(* RegionManager calls *)

\* the regions file found at construction: missing (the defaults are
\* created), unreadable, an empty catalog, and a catalog of three regions
FileInputs ==
  {AbsentFile,
   [state |-> "corrupt", regions |-> <<>>],
   save_regions(<<>>),
   save_regions(SubSeq(default_regions, 1, 3))}

\* the profiles passed to add_region: a new region and a PUNE profile with
\* other coordinates
ExtraRegions ==
  {[region_id |-> "MUMBAI", latitude |-> 190760, longitude |-> 728777,
    default_soil |-> [texture |-> <<"Loam">>, ph |-> 700, organic_matter |-> "Medium", drainage |-> "Medium"]],
   [region_id |-> "PUNE", latitude |-> 186000, longitude |-> 739000,
    default_soil |-> PUNE_default_soil]}

\* the coordinates searched for: a grid over 11..(11 + 3 * MaxGridIdx) N,
\* 73..(73 + 3 * MaxGridIdx) E, the coordinates of PUNE, and a point 10 km
\* from PUNE
CoordinateInputs ==
  {<<110000 + 30000 * i, 730000 + 30000 * j>> : i \in 0..MaxGridIdx, j \in 0..MaxGridIdx}
    \cup {<<185204, 738567>>, <<186000, 739000>>}

\* max_distance_km: the default 50, the 100 of the /recommend handler, and 500
MaxDistanceInputs == {50, 100, 500}

RegionIdInputs == {"PUNE", "LATUR", "MUMBAI"}

\* the state after RegionManager(regions_file)
InitRegions ==
  /\ \E file \in FileInputs :
       /\ regions = load_regions(file).regions
       /\ regions_file = load_regions(file).regions_file
       /\ args = [regions_file |-> file]
  /\ pc = "return"
  /\ fn = "__init__"
  /\ ret = NoRegion
  /\ calls = <<>>
  /\ locals = <<>>

\* a RegionManager constructed again from the same file
LoadRegions ==
  /\ regions' = load_regions(regions_file).regions
  /\ regions_file' = load_regions(regions_file).regions_file
  /\ pc' = "return"
  /\ fn' = "__init__"
  /\ args' = [regions_file |-> regions_file]
  /\ ret' = NoRegion
  /\ UNCHANGED <<calls, locals>>

AddRegion ==
  \E region \in ExtraRegions :
    /\ regions' = dict_put(regions, region)
    /\ pc' = "return"
    /\ fn' = "add_region"
    /\ args' = [region |-> region]
    /\ ret' = NoRegion
    /\ UNCHANGED <<regions_file, calls, locals>>

SaveRegions ==
  /\ regions_file' = save_regions(regions)
  /\ pc' = "return"
  /\ fn' = "save_regions"
  /\ args' = [regions |-> regions]
  /\ ret' = NoRegion
  /\ UNCHANGED <<regions, calls, locals>>

GetRegionProfile ==
  \E region_id \in RegionIdInputs :
    /\ pc' = "return"
    /\ fn' = "get_region_profile"
    /\ args' = [region_id |-> region_id]
    /\ ret' = get_region_profile(regions, region_id)
    /\ UNCHANGED managers

FindNearestRegion ==
  \E point \in CoordinateInputs, max_distance_km \in MaxDistanceInputs :
    /\ pc' = "return"
    /\ fn' = "find_nearest_region"
    /\ args' = [latitude |-> point[1], longitude |-> point[2],
                max_distance_km |-> max_distance_km]
    /\ ret' = find_nearest_region(regions, point[1], point[2], max_distance_km)
    /\ UNCHANGED managers

NextRegions ==
  LoadRegions \/ AddRegion \/ SaveRegions \/ GetRegionProfile \/ FindNearestRegion

SpecRegions == InitRegions /\ [][NextRegions]_vars

----------------------------------------------------------------------------
(* Requests to /recommend *)

\* fetch_weather(latitude, longitude, days=16) returns 16 daily records
FORECAST_DAYS == 16

\* what the Open-Meteo request can do: requests.get fails to connect,
\* raise_for_status raises for an error status, or 16 days come back
FetchFailures == {"ConnectionError", "HTTPError"}

FetchedSeries ==
  {Block(day, FORECAST_DAYS) : day \in DayKinds}
    \cup {Block([temp_max |-> 380, temp_min |-> 240, rainfall |-> 0], 10)
            \o Block([temp_max |-> 310, temp_min |-> 230, rainfall |-> 80], 6)}

\* the region catalogs of the running service: the defaults, and a catalog
\* whose only region has a default_soil without organic_matter
ApiFileInputs ==
  {AbsentFile,
   save_regions(<<[region_id |-> "PUNE", latitude |-> 185204, longitude |-> 738567,
                   default_soil |-> [texture |-> <<"Clay", "Loam">>, ph |-> 720]]>>)}

\* requests: no location, a region id (known or not), coordinates (10 km
\* from PUNE, 650 km from every default region, on the equator); no
\* season, a season, a string that is none; a soil or none
RequestInputs ==
  {[region_id |-> location[1], latitude |-> location[2], longitude |-> location[3],
    season |-> season, soil |-> soil, irrigation |-> irrigation, planning_days |-> 90] :
     location \in {<<"None", <<>>, <<>>>>, <<"PUNE", <<>>, <<>>>>, <<"MUMBAI", <<>>, <<>>>>,
                   <<"None", <<186000>>, <<739000>>>>, <<"None", <<110000>>, <<730000>>>>,
                   <<"None", <<0>>, <<739000>>>>, <<"MUMBAI", <<186000>>, <<739000>>>>},
     season \in {"None", "Kharif", "Rabi", "Zaid", "Summer"},
     soil \in {NoSoil, [texture |-> <<"Sandy">>, ph |-> 650, organic_matter |-> "High",
                        drainage |-> "Good"]},
     irrigation \in {"None", "Limited"}}

\* datetime.now(): a day of Kharif, a day of the Kharif-Rabi transition, a
\* day of Zaid
NowInputs ==
  {[month |-> 7, day |-> 15], [month |-> 10, day |-> 20], [month |-> 4, day |-> 10]}

\* the local variables of recommend before its first statement
NoLocals ==
  [region |-> NoRegion, latitude |-> 0, longitude |-> 0, season |-> "None",
   is_transition |-> FALSE, next_season |-> "None", season_guidance |-> <<>>,
   soil |-> NoSoil, exception |-> NoException]

InitApi ==
  /\ \E file \in ApiFileInputs :
       /\ regions = load_regions(file).regions
       /\ regions_file = load_regions(file).regions_file
  /\ calls = <<>>
  /\ locals = NoLocals
  /\ pc = "determine_region"
  /\ fn = "recommend"
  /\ args \in [request : RequestInputs, current_date : NowInputs]
  /\ ret = NoResponse

\* 1. Determine region
DetermineRegion ==
  /\ pc = "determine_region"
  /\ \E request \in {args.request}, found \in {determine_region(regions, args.request)} :
         /\ calls' = IF request.region_id # "None" THEN Append(calls, "get_region_profile")
                     ELSE IF truthy(request.latitude) /\ truthy(request.longitude)
                       THEN Append(calls, "find_nearest_region")
                     ELSE calls
         /\ IF found.exception # NoException
              THEN /\ locals' = [locals EXCEPT !.exception = found.exception]
                   /\ pc' = "except"
            ELSE /\ locals' = [locals EXCEPT !.region = found.region,
                                             !.latitude = found.latitude,
                                             !.longitude = found.longitude]
                 /\ pc' = "determine_season"
  /\ UNCHANGED <<fn, args, ret, regions, regions_file>>

\* 2. Determine season, and the season transition of the current date
DetermineSeason ==
  /\ pc = "determine_season"
  /\ LET found == determine_season(args.request, args.current_date)
         transition == is_season_transition(args.current_date, 30)
     IN  /\ calls' = IF args.request.season = "None"
                       THEN calls \o <<"detect_season", "is_season_transition">>
                     ELSE IF found.exception = NoException
                       THEN Append(calls, "is_season_transition")
                     ELSE calls
         /\ IF found.exception # NoException
              THEN /\ locals' = [locals EXCEPT !.exception = found.exception]
                   /\ pc' = "except"
            ELSE /\ locals' = [locals EXCEPT
                                 !.season = found.season,
                                 !.is_transition = transition.is_transition,
                                 !.next_season = transition.next_season,
                                 !.season_guidance =
                                    format_season_guidance(found.season,
                                      transition.is_transition, transition.next_season)]
                 /\ pc' = "determine_soil"
  /\ UNCHANGED <<fn, args, ret, regions, regions_file>>

\* 3. Determine soil
DetermineSoil ==
  /\ pc = "determine_soil"
  /\ LET found == determine_soil(args.request, locals.region)
     IN  IF found.exception # NoException
           THEN /\ locals' = [locals EXCEPT !.exception = found.exception]
                /\ pc' = "except"
         ELSE /\ locals' = [locals EXCEPT !.soil = found.soil]
              /\ pc' = "fetch_weather"
  /\ UNCHANGED <<fn, args, ret, regions, regions_file, calls>>

\* 4. Fetch weather: the request fails, and the exception leaves the try
\* block
FetchWeatherFails ==
  /\ pc = "fetch_weather"
  /\ \E failure \in FetchFailures :
       locals' = [locals EXCEPT !.exception = Raised(failure, "fetch_weather")]
  /\ calls' = Append(calls, "fetch_weather")
  /\ pc' = "except"
  /\ UNCHANGED <<fn, args, ret, regions, regions_file>>

\* 4. to 9. Fetch weather, preprocess, forecast, recommend, build the
\* response
FetchWeatherAndRespond ==
  /\ pc = "fetch_weather"
  /\ \E fetched \in FetchedSeries :
       ret' = build_response(args.request, locals, fetched)
  /\ calls' = calls \o <<"fetch_weather", "add_agri_features", "forecast_days_17_90",
                         "recommend_crops">>
  /\ pc' = "return"
  /\ UNCHANGED <<fn, args, locals, regions, regions_file>>

\* except HTTPException: raise / except Exception as e: raise
\* HTTPException(500, ...)
Except ==
  /\ pc = "except"
  /\ ret' = error_response(locals.exception)
  /\ pc' = "return"
  /\ UNCHANGED <<fn, args, locals, regions, regions_file, calls>>

NextApi ==
  \/ DetermineRegion
  \/ DetermineSeason
  \/ DetermineSoil
  \/ FetchWeatherFails
  \/ FetchWeatherAndRespond
  \/ Except

SpecApi == InitApi /\ [][NextApi]_vars

----------------------------------------------------------------------------
(* All calls *)

Init ==
  \/ InitSoil \/ InitScore \/ InitSeason \/ InitRecommend \/ InitFeatures
  \/ InitRegions \/ InitApi

Next ==
  \/ CalculateSoilCompatibilityScore
  \/ FilterBySoil
  \/ CalculateSuitabilityScore
  \/ CalculateWaterScore
  \/ DetermineRiskLevel
  \/ CalculateTemperatureScore
  \/ DetectSeason
  \/ IsSeasonTransition
  \/ RecommendCrops
  \/ ForecastDays
  \/ AddAgriFeatures
  \/ LoadRegions
  \/ AddRegion
  \/ SaveRegions
  \/ GetRegionProfile
  \/ FindNearestRegion
  \/ DetermineRegion
  \/ DetermineSeason
  \/ DetermineSoil
  \/ FetchWeatherFails
  \/ FetchWeatherAndRespond
  \/ Except

Spec == Init /\ [][Next]_vars

----------------------------------------------------------------------------
(* Properties *)

returned(f) == pc = "return" /\ fn = f

\* a soil profile as the data model allows it: texture of the fixed enum,
\* pH in [0, 14], drainage Poor, Medium, Good or missing
ValidSoil(soil) ==
  /\ soil.texture \in TEXTURES
  /\ 0 <= soil.ph /\ soil.ph <= 1400
  /\ soil.drainage \in DRAINAGES

\* the position of a crop in the catalog
CatalogIndex(crop_id) == CHOOSE i \in DOMAIN CROPS_DATA : CROPS_DATA[i].crop_id = crop_id

\* C1: calculate_suitability_score returns a value in [0, 100] for every crop
\* whose regional suitability values lie in [0, 1], every soil or none, every
\* region or none, every season, temperature, rainfall and dry spell; the
\* result is never negative.
C1_SuitabilityScoreInRange ==
  (/\ returned("calculate_suitability_score")
   /\ \A r \in DOMAIN args.crop.regional_suitability :
        args.crop.regional_suitability[r] \in 0..100)
  => /\ RatGE(ret.score, FromInt(0))
     /\ RatLE(ret.score, FromInt(100))

\* C2: the list returned by recommend_crops is ordered by non-increasing
\* suitability_score, and recommendations of equal score keep the relative
\* order of their crops in the catalog.
C2_SortedByScoreStable ==
  returned("recommend_crops") =>
    \A i, j \in DOMAIN ret :
      i < j =>
        /\ ret[i].suitability_score >= ret[j].suitability_score
        /\ ret[i].suitability_score = ret[j].suitability_score
             => CatalogIndex(ret[i].crop_id) < CatalogIndex(ret[j].crop_id)

\* C2 witness: a returned list that is not in catalog order and holds both a
\* tie and a strict descent
C2_Witness ==
  /\ returned("recommend_crops")
  /\ \E i, j \in DOMAIN ret :
       i < j /\ CatalogIndex(ret[i].crop_id) > CatalogIndex(ret[j].crop_id)
  /\ \E i, j \in DOMAIN ret :
       i < j /\ ret[i].suitability_score = ret[j].suitability_score
  /\ \E i, j \in DOMAIN ret :
       i < j /\ ret[i].suitability_score > ret[j].suitability_score

\* the catalog crops that recommend_crops must keep: the crop lists the
\* season; when a region is given it is a proven-success region of the crop
\* or the crop's suitability there is at least 0.5; when a soil is given the
\* soil compatibility score is at least 40
C3_Expected(crop) ==
  /\ args.season \in Range(crop.seasons)
  /\ args.region_id # "None" =>
       \/ args.region_id \in crop.successful_regions
       \/ /\ args.region_id \in DOMAIN crop.regional_suitability
          /\ crop.regional_suitability[args.region_id] >= 50
  /\ args.soil # NoSoil =>
       calculate_ph_score(crop, args.soil.ph)
         + calculate_texture_bonus(crop, args.soil.texture)
         + calculate_drainage_bonus(crop, args.soil) >= 40

\* C3: recommend_crops returns exactly one recommendation for each catalog
\* crop that passes the season, region and soil conditions, and none for any
\* other crop.
C3_ExactlyTheEligibleCrops ==
  returned("recommend_crops") =>
    LET expected == {crop.crop_id : crop \in {c \in Range(CROPS_DATA) : C3_Expected(c)}}
    IN  /\ {ret[i].crop_id : i \in DOMAIN ret} = expected
        /\ Len(ret) = Cardinality(expected)

\* C3 witness: a call with a region and a soil in which the region and soil
\* filters keep some of the season's crops and drop others
C3_Witness ==
  /\ returned("recommend_crops")
  /\ args.region_id = "PUNE"
  /\ args.soil = PUNE_default_soil
  /\ args.season = "Rabi"
  /\ Len(ret) > 0
  /\ Len(ret) < Len(get_crops_by_season("Rabi"))

\* C4: the suitability score equals min(100, 0.25 temperature fit + 0.25 water
\* balance + 0.15 soil compatibility + 0.15 regional suitability + 0.10 season
\* match + 0.10 drought bonus), with soil compatibility 70 when no soil is
\* given, regional suitability the crop's per-region value times 100 and 50
\* when no region is given, season match 100 if the season is one of the
\* crop's seasons and 50 otherwise.  (Stated for a region the crop has a
\* value for.)
C4_WeightedSum ==
  (/\ returned("calculate_suitability_score")
   /\ args.region_id # "None" => args.region_id \in DOMAIN args.crop.regional_suitability)
  => LET crop == args.crop
         temperature == calculate_temperature_score(crop, args.avg_temp)
         water == calculate_water_score(crop, args.expected_rainfall,
                                        args.irrigation_available, args.season)
         soil == IF args.soil = NoSoil THEN 70
                 ELSE calculate_soil_compatibility_score(crop, args.soil)
         regional == IF args.region_id = "None" THEN 50
                     ELSE crop.regional_suitability[args.region_id]
         seasonal == IF args.season \in Range(crop.seasons) THEN 100 ELSE 50
         drought == calculate_drought_tolerance_score(crop, args.max_dry_spell)
         sum == RatAdd(RatMul(Rat(25, 100), temperature),
                       Rat(25 * water + 15 * soil + 15 * regional
                           + 10 * seasonal + 10 * drought, 100))
     IN  ret.score = RatMin(FromInt(100), sum)

\* C4 witness: a call without soil and without region, for a season the crop
\* does not list, at a temperature on the decaying part of the band
C4_Witness ==
  /\ returned("calculate_suitability_score")
  /\ args.soil = NoSoil /\ ret.soil_score = 70
  /\ args.region_id = "None" /\ ret.regional_score = 50
  /\ ret.seasonal_score = 50
  /\ RatLT(FromInt(60), ret.temp_score) /\ RatLT(ret.temp_score, FromInt(100))
  /\ RatLT(ret.score, FromInt(100))

\* C5: calculate_soil_compatibility_score returns a value in [0, 100] for
\* every crop with ph_min <= ph_max and every valid soil profile.
C5_SoilScoreInRange ==
  (/\ returned("calculate_soil_compatibility_score")
   /\ args.crop.soil_ph_min <= args.crop.soil_ph_max
   /\ ValidSoil(args.soil))
  => ret.score \in 0..100

\* C6: filter_by_soil with min_score = 0 returns its input list unchanged, for
\* every list of catalog crops and every valid soil profile.
C6_FilterMinScoreZeroKeepsAll ==
  (/\ returned("filter_by_soil")
   /\ "min_score" \in DOMAIN args
   /\ args.min_score = 0
   /\ ValidSoil(args.soil))
  => ret = args.crops

\* the season bands by date, month * 100 + day: Kharif Jun 1 to Oct 31, Rabi
\* Nov 1 to Mar 31, Zaid Apr 1 to May 31
C7_InBand(season, date) ==
  LET md == date.month * 100 + date.day
  IN  \/ season = "Kharif" /\ 601 <= md /\ md <= 1031
      \/ season = "Rabi" /\ (1101 <= md \/ md <= 331)
      \/ season = "Zaid" /\ 401 <= md /\ md <= 531

C8_WaterScoreMonotone ==
  fn = "calculate_water_score" =>
    \A i, j \in DOMAIN ret :
      RatLE(ret[i].expected_rainfall, ret[j].expected_rainfall)
        => ret[i].score <= ret[j].score

\* C8 witness: two calls, the second at a higher rainfall and with a higher
\* score
C8_Witness ==
  /\ returned("calculate_water_score")
  /\ Len(ret) = 2
  /\ RatLT(ret[1].expected_rainfall, ret[2].expected_rainfall)
  /\ ret[1].score < ret[2].score

\* the PUNE scenario: region PUNE, season Kharif, the PUNE default soil,
\* irrigation available, 90 days of 27 degrees and 8 mm
C9_Scenario ==
  /\ fn = "recommend_crops"
  /\ args.region_id = "PUNE"
  /\ args.season = "Kharif"
  /\ args.soil = PUNE_default_soil
  /\ args.irrigation_available
  /\ Len(args.weather_df) = 90
  /\ \A i \in DOMAIN args.weather_df :
       args.weather_df[i].temp_avg = FromInt(27) /\ args.weather_df[i].rainfall = 80

\* C9: in the PUNE scenario BAJRA_01 and JOWAR_01 are both among the first
\* five recommendations.
C9_BajraJowarTopFive ==
  (pc = "return" /\ C9_Scenario) =>
    LET top5 == {ret[i].crop_id : i \in 1..Min(5, Len(ret))}
    IN  {"BAJRA_01", "JOWAR_01"} \subseteq top5

\* C9 witness: the scenario has returned, with more than five recommendations
C9_Witness ==
  /\ pc = "return"
  /\ C9_Scenario
  /\ args.planning_days = 90
  /\ Len(ret) > 5

\* C10: for a soil of pH 9.5, of any texture and drainage, every catalog crop
\* has pH sub-score 0, and filter_by_soil with min_score = 40 applied to the
\* whole catalog returns the empty list.
C10_Ph95ExcludesEveryCrop ==
  (pc = "return" /\ fn \in {"calculate_soil_compatibility_score", "filter_by_soil"}
   /\ args.soil.ph = 950)
  => /\ (fn = "calculate_soil_compatibility_score" /\ args.crop \in Range(CROPS_DATA))
          => ret.ph_score = 0
     /\ (/\ fn = "filter_by_soil" /\ "min_score" \in DOMAIN args
         /\ args.min_score = 40 /\ args.crops = crops_values)
          => ret = <<>>

\* C10 witness: the whole catalog filtered at min_score 40 for a pH 9.5 loam
\* with good drainage
C10_Witness ==
  /\ returned("filter_by_soil")
  /\ args.soil.ph = 950
  /\ args.soil.texture = <<"Loam">>
  /\ args.soil.drainage = "Good"
  /\ "min_score" \in DOMAIN args
  /\ args.min_score = 40
  /\ args.crops = crops_values
  /\ ret = <<>>

\* the distance of a catalog region from the coordinates searched for
C11_Distance(region) ==
  haversine_distance(args.latitude, args.longitude, region.latitude, region.longitude)

\* C11: find_nearest_region returns a catalog region at minimum distance from
\* the coordinates when that minimum is at most max_distance_km, and no region
\* when the minimum exceeds max_distance_km or the catalog is empty; it never
\* returns a region farther away than max_distance_km
C11_NearestWithinRange ==
  returned("find_nearest_region") =>
    LET limit == args.max_distance_km * 1000
        distances == [i \in DOMAIN regions |-> C11_Distance(regions[i])]
    IN  /\ (ret = NoRegion) <=> (\A i \in DOMAIN regions : distances[i] > limit)
        /\ ret # NoRegion =>
              \E k \in DOMAIN regions :
                /\ ret = regions[k]
                /\ distances[k] <= limit
                /\ \A i \in DOMAIN regions : distances[k] <= distances[i]

\* a search with max_distance_km = 100 from coordinates more than 500 km from
\* every region of a non-empty catalog has returned no region
C11_Witness ==
  /\ returned("find_nearest_region")
  /\ regions # <<>>
  /\ args.max_distance_km = 100
  /\ \A i \in DOMAIN regions : C11_Distance(regions[i]) > 500000
  /\ ret = NoRegion

\* C19: a region added with add_region is in the persisted catalog: a
\* RegionManager constructed from the regions file contains it
C19_AddedRegionPersisted ==
  returned("add_region") => args.region \in Range(load_regions(regions_file).regions)

\* the number of consecutive days of rainfall below 2 mm that end at day i
C12_DryRunEndingAt(df, i) ==
  LET wet_before == {k \in 1..i : df[k].rainfall >= 20}
  IN  IF wet_before = {} THEN i
      ELSE i - CHOOSE k \in wet_before : \A j \in wet_before : j <= k

\* C12: add_agri_features sets dry_spell_days to the length of the run of dry
\* days (rainfall < 2 mm) ending at each dry day and to 0 on each wet day; for
\* rainfall [0,0,5,0,0,0] the column is [1,2,0,1,2,3]
C12_DrySpellRunLength ==
  returned("add_agri_features") =>
    /\ Len(ret) = Len(args.df)
    /\ \A i \in DOMAIN args.df :
         ret[i].dry_spell_days = C12_DryRunEndingAt(args.df, i)
    /\ rainfall_column(args.df) = [i \in 1..6 |-> FromInt(IF i = 3 THEN 5 ELSE 0)]
         => dry_spell_column(ret) = <<1, 2, 0, 1, 2, 3>>

\* the series with rainfall [0,0,5,0,0,0] has been processed
C12_Witness ==
  /\ returned("add_agri_features")
  /\ [i \in DOMAIN args.df |-> args.df[i].rainfall] = <<0, 0, 50, 0, 0, 0>>
  /\ dry_spell_column(ret) = <<1, 2, 0, 1, 2, 3>>

\* the day of the year of a date of the calendar (a leap year)
RECURSIVE C13_DaysBeforeMonth(_)
C13_DaysBeforeMonth(month) ==
  IF month = 1 THEN 0 ELSE C13_DaysBeforeMonth(month - 1) + DaysInMonth(month - 1)

C13_DayOfYear(date) == C13_DaysBeforeMonth(date.month) + date.day

\* the number of days from a date to the last day of its season: Oct 31 for
\* Kharif (June to October), Mar 31 for Rabi (November to March, the Mar 31
\* after a November or December date lying in the next year), May 31 for
\* Zaid (April and May)
C13_DaysToSeasonEnd(date) ==
  LET doy == C13_DayOfYear(date)
      end_of(month) == C13_DaysBeforeMonth(month) + 31
  IN  IF date.month \in 6..10 THEN end_of(10) - doy
      ELSE IF date.month \in {11, 12} THEN (366 - doy) + 90
      ELSE IF date.month \in 1..3 THEN end_of(3) - doy
      ELSE end_of(5) - doy

C13_NextSeason(date) ==
  IF date.month \in 6..10 THEN "Rabi"
  ELSE IF date.month \in {11, 12, 1, 2, 3} THEN "Zaid"
  ELSE "Kharif"

\* C13: for every date and every non-negative days_threshold,
\* is_season_transition returns (True, next season) exactly when the date is
\* at most days_threshold days before the last day of its season, and
\* (False, None) otherwise
C13_TransitionWithinThreshold ==
  returned("is_season_transition") =>
    IF C13_DaysToSeasonEnd(args.date) <= args.days_threshold
      THEN ret = [is_transition |-> TRUE, next_season |-> C13_NextSeason(args.date)]
    ELSE ret = [is_transition |-> FALSE, next_season |-> "None"]

\* C14: every recommendation reports irrigation_needed_mm = max(0, water
\* requirement - expected rainfall), never negative and the same whether
\* irrigation_available is true or false, while the water sub-score of the
\* crop is the score at the rainfall plus the 50 mm irrigation buffer
C14_IrrigationNeededWithoutBuffer ==
  returned("recommend_crops") =>
    LET other == recommend_crops(args.weather_df, args.season, args.region_id, args.soil,
                                 ~args.irrigation_available, args.planning_days)
        expected_rainfall == weather_statistics(args.weather_df, args.planning_days).expected_rainfall
    IN  /\ Len(other) = Len(ret)
        /\ \A i \in DOMAIN ret :
             LET rec == ret[i]
                 crop == CROPS_DATA[CatalogIndex(rec.crop_id)]
             IN  /\ rec.irrigation_needed_mm =
                       Max(0, 10 * rec.water_required_mm - rec.expected_rainfall_mm)
                 /\ rec.irrigation_needed_mm >= 0
                 /\ \E j \in DOMAIN other :
                      /\ other[j].crop_id = rec.crop_id
                      /\ other[j].irrigation_needed_mm = rec.irrigation_needed_mm
                 /\ calculate_water_score(crop, expected_rainfall, TRUE, args.season) =
                      calculate_water_score(crop, RatAdd(expected_rainfall, FromInt(50)),
                                            FALSE, args.season)

\* a call with irrigation available has returned a crop that still needs
\* irrigation and whose water sub-score is higher than without irrigation
C14_Witness ==
  /\ returned("recommend_crops")
  /\ args.irrigation_available
  /\ \E i \in DOMAIN ret :
       LET crop == CROPS_DATA[CatalogIndex(ret[i].crop_id)]
           expected_rainfall == weather_statistics(args.weather_df, args.planning_days).expected_rainfall
       IN  /\ ret[i].irrigation_needed_mm > 0
           /\ calculate_water_score(crop, expected_rainfall, TRUE, args.season) >
                calculate_water_score(crop, expected_rainfall, FALSE, args.season)

\* the rejection of an invalid input
InvalidInput == [error |-> "InvalidInput"]

\* C16: recommend_crops and forecast_days_17_90 reject a weather series of
\* fewer than 5 daily records with an InvalidInput error and return neither
\* recommendations nor an outlook for it
C16_ShortSeriesRejected ==
  (pc = "return" /\ fn \in {"recommend_crops", "forecast_days_17_90"}
   /\ Len(args.weather_df) < 5)
  => ret = InvalidInput

\* the two checks of the risk note: (a) a dry spell of more than 7 days for a
\* crop of Low or Moderate drought tolerance, (b) water_available below 0.8 of
\* the water requirement
C15_DroughtCheck ==
  args.max_dry_spell > 7 /\ args.crop.drought_tolerance \in {"Low", "Moderate"}

C15_WaterCheck ==
  /\ args.crop.water_requirement_mm > 0
  /\ RatLT(RatMul(FromInt(10), args.water_available), FromInt(8 * args.crop.water_requirement_mm))

C15_DroughtPhrase ==
  IF args.crop.drought_tolerance = "Low" THEN "High drought risk" ELSE "Moderate drought risk"

\* C15: determine_risk_level returns "Low risk" exactly when neither check
\* fires, the single phrase when exactly one fires, and a note starting with
\* "Multiple risks: " that lists both phrases exactly when both fire; a crop of
\* High drought tolerance never gets a drought-risk phrase
C15_RiskNote ==
  returned("determine_risk_level") =>
    /\ (ret = <<"Low risk">>) <=> (~C15_DroughtCheck /\ ~C15_WaterCheck)
    /\ (C15_DroughtCheck /\ ~C15_WaterCheck) => ret = <<C15_DroughtPhrase>>
    /\ (~C15_DroughtCheck /\ C15_WaterCheck) => ret = <<"Water deficit risk">>
    /\ (Head(ret) = "Multiple risks: ") <=> (C15_DroughtCheck /\ C15_WaterCheck)
    /\ (C15_DroughtCheck /\ C15_WaterCheck) =>
          ret = <<"Multiple risks: ", C15_DroughtPhrase, "Water deficit risk">>
    /\ args.crop.drought_tolerance = "High" =>
          Range(ret) \cap {"High drought risk", "Moderate drought risk"} = {}

\* both checks have fired for a crop of the catalog
C15_Witness ==
  /\ returned("determine_risk_level")
  /\ args.crop \in Range(CROPS_DATA)
  /\ C15_DroughtCheck
  /\ C15_WaterCheck
  /\ Head(ret) = "Multiple risks: "

\* the integrity conditions of a crop profile
C20_Ordered(crop) ==
  /\ crop.temp_min <= crop.temp_optimal_min
  /\ crop.temp_optimal_min <= crop.temp_optimal_max
  /\ crop.temp_optimal_max <= crop.temp_max
  /\ crop.soil_ph_min <= crop.soil_ph_max

\* C20: every crop of the shipped catalog has temp_min <= temp_optimal_min <=
\* temp_optimal_max <= temp_max and soil_ph_min <= soil_ph_max
C20_CatalogIntegrity ==
  returned("calculate_suitability_score") =>
    \A i \in DOMAIN crops_values : C20_Ordered(crops_values[i])

\* a crop of the shipped catalog has been scored
C20_Witness ==
  /\ returned("calculate_suitability_score")
  /\ args.crop \in Range(crops_values)
  /\ args.crop.crop_id = "TOMATO_01"

\* the positions of a call in the log of the handler's calls
C17_Positions(name) == {i \in DOMAIN calls : calls[i] = name}

\* the requests that are rejected: no location, an unknown region id,
\* coordinates with no region within 100 km, a season string that is none
\* of the three seasons
C17_MissingLocation ==
  /\ args.request.region_id = "None"
  /\ ~(truthy(args.request.latitude) /\ truthy(args.request.longitude))

C17_UnknownRegion ==
  /\ args.request.region_id # "None"
  /\ \A i \in DOMAIN regions : regions[i].region_id # args.request.region_id

C17_NoRegionInRange ==
  /\ args.request.region_id = "None"
  /\ truthy(args.request.latitude) /\ truthy(args.request.longitude)
  /\ \A i \in DOMAIN regions :
       haversine_distance(args.request.latitude[1], args.request.longitude[1],
                          regions[i].latitude, regions[i].longitude) > 100000

C17_InvalidSeason ==
  args.request.season \notin {"None", "Kharif", "Rabi", "Zaid"}

\* C17: in a request to /recommend the weather fetch is made only after the
\* region is resolved and the season validated, and at most once; a request
\* rejected for a missing location, an unknown region id, coordinates with no
\* region in range or an invalid season makes no weather fetch and no scoring
C17_FetchAfterValidation ==
  fn = "recommend" =>
    /\ Cardinality(C17_Positions("fetch_weather")) <= 1
    /\ C17_Positions("fetch_weather") # {} =>
          /\ locals.region \in Range(regions)
          /\ locals.season \in {"Kharif", "Rabi", "Zaid"}
          /\ \E i \in DOMAIN calls :
               /\ calls[i] \in {"get_region_profile", "find_nearest_region"}
               /\ \A j \in C17_Positions("fetch_weather") : i < j
    /\ \A k \in C17_Positions("recommend_crops") :
          \E j \in C17_Positions("fetch_weather") : j < k
    /\ (C17_MissingLocation \/ C17_UnknownRegion \/ C17_NoRegionInRange \/ C17_InvalidSeason)
          => /\ C17_Positions("fetch_weather") = {}
             /\ C17_Positions("recommend_crops") = {}
             /\ pc = "return" => ret.status_code \in {400, 404}

\* a request for a known region with the season "Summer" has been answered
\* with status 400 after the region lookup alone
C17_Witness ==
  /\ fn = "recommend"
  /\ pc = "return"
  /\ C17_InvalidSeason
  /\ locals.region \in Range(regions)
  /\ calls = <<"get_region_profile">>
  /\ ret.status_code = 400

\* the kind of failure a rejected request has met
C18_Kind ==
  IF locals.exception.type # "HTTPException"
    THEN IF locals.exception.raised_by = "fetch_weather" THEN "WeatherFetchFailed"
         ELSE "Internal"
  ELSE IF C17_UnknownRegion THEN "UnknownRegion"
  ELSE IF C17_NoRegionInRange THEN "NoRegionInRange"
  ELSE "InvalidInput"

\* the response the handler gives to a failure of each kind
C18_ResponseOfKind ==
  [InvalidInput |->
     error_response(determine_region(regions,
       [region_id |-> "None", latitude |-> <<>>, longitude |-> <<>>]).exception),
   UnknownRegion |->
     error_response(determine_region(<<>>,
       [region_id |-> "MUMBAI", latitude |-> <<>>, longitude |-> <<>>]).exception),
   NoRegionInRange |->
     error_response(determine_region(<<>>,
       [region_id |-> "None", latitude |-> <<110000>>, longitude |-> <<730000>>]).exception),
   WeatherFetchFailed |-> error_response(Raised("ConnectionError", "fetch_weather")),
   Internal |-> error_response(Raised("TypeError", "get_default_soil"))]

\* C18: /recommend answers each kind of failure (invalid input, unknown
\* region id, no region within range, weather fetch failure) with an error
\* response of its own code, and a weather fetch failure never with the code
\* and message of an arbitrary internal failure
C18_DistinctErrorCodes ==
  (fn = "recommend" /\ pc = "return" /\ locals.exception # NoException) =>
    /\ \A kind \in {"InvalidInput", "UnknownRegion", "NoRegionInRange", "WeatherFetchFailed"} :
         (C18_Kind # "Internal" /\ kind # C18_Kind)
           => ret.status_code # C18_ResponseOfKind[kind].status_code
    /\ C18_Kind = "WeatherFetchFailed" =>
         ~(/\ ret.status_code = C18_ResponseOfKind["Internal"].status_code
           /\ Head(ret.detail) = Head(C18_ResponseOfKind["Internal"].detail))

\* C21: filter_by_soil called without a minimum score uses the default
\* threshold 40: the threshold of the call is 40 and the call keeps exactly
\* the crops whose soil compatibility score is at least 40.
C21_DefaultMinScoreForty ==
  (returned("filter_by_soil") /\ "min_score" \notin DOMAIN args)
  => /\ locals.min_score = 40
     /\ ret = filter_by_soil(args.crops, args.soil, 40)

\* the sum of temp_max + temp_min over the days lo..hi of a series, in
\* tenths of a degree: twenty times the sum of the daily averages in degrees
RECURSIVE C22_TempSum(_, _, _)
C22_TempSum(df, lo, hi) ==
  IF lo > hi THEN 0
  ELSE IF lo = hi THEN df[lo].temp_max + df[lo].temp_min
  ELSE LET mid == (lo + hi) \div 2
       IN  C22_TempSum(df, lo, mid) + C22_TempSum(df, mid + 1, hi)

\* +1, -1 or 0 as the last five days are warmer than, cooler than or as warm
\* as the first five
C22_Nudge(df) ==
  LET n == Len(df)
      k == Min(5, n)
      first == C22_TempSum(df, 1, k)
      last == C22_TempSum(df, n - k + 1, n)
  IN  IF last > first THEN 1 ELSE IF last < first THEN -1 ELSE 0

\* C22: forecast_days_17_90 returns as expected average temperature the mean
\* of temp_avg over the whole series plus exactly +1 when the mean of the last
\* five days exceeds the mean of the first five, exactly -1 when it is lower
\* and 0 when they are equal, whatever the size of the trend (the result is
\* reported to two decimals).
C22_FixedTemperatureNudge ==
  returned("forecast_days_17_90") =>
    LET df == args.weather_df
        n == Len(df)
    IN  ret.expected_avg_temp =
          RoundTo(Rat(C22_TempSum(df, 1, n) + 20 * n * C22_Nudge(df), 20 * n), 100)

\* a series whose last five days are at least ten degrees warmer than its
\* first five has been given the mean plus one degree
C22_Witness ==
  /\ returned("forecast_days_17_90")
  /\ LET df == args.weather_df
         n == Len(df)
         k == Min(5, n)
     IN  /\ C22_TempSum(df, n - k + 1, n) - C22_TempSum(df, 1, k) >= 10 * 20 * k
         /\ ret.expected_avg_temp = RoundTo(Rat(C22_TempSum(df, 1, n) + 20 * n, 20 * n), 100)

\* 100 - 40 * distance / width, for a distance of n / d degrees
C23_Decay(n, d, width) == RatSub(FromInt(100), Rat(40 * n, d * width))

\* C23: calculate_temperature_score returns 100 inside the optimal band,
\* 100 - 40 * (distance to the nearest optimal edge / width of that outer
\* band) inside [temp_min, temp_max] but outside the optimal band, and 0
\* outside [temp_min, temp_max]; every result is 0 or in [60, 100], and it is
\* 60 exactly at temp_min and at temp_max (of a band with outer bands of
\* positive width).
C23_TemperatureScoreBands ==
  returned("calculate_temperature_score") =>
    LET crop == args.crop
        n == args.avg_temp[1]
        d == args.avg_temp[2]
        below == crop.temp_min * d <= n /\ n < crop.temp_optimal_min * d
        inside == crop.temp_optimal_min * d <= n /\ n <= crop.temp_optimal_max * d
        above == crop.temp_optimal_max * d < n /\ n <= crop.temp_max * d
    IN  /\ inside => ret = FromInt(100)
        /\ below => ret = C23_Decay(crop.temp_optimal_min * d - n, d,
                                    crop.temp_optimal_min - crop.temp_min)
        /\ above => ret = C23_Decay(n - crop.temp_optimal_max * d, d,
                                    crop.temp_max - crop.temp_optimal_max)
        /\ ~(below \/ inside \/ above) => ret = FromInt(0)
        /\ \/ ret = FromInt(0)
           \/ RatLE(FromInt(60), ret) /\ RatLE(ret, FromInt(100))
        /\ (n = crop.temp_min * d /\ crop.temp_min < crop.temp_optimal_min)
              => ret = FromInt(60)
        /\ (n = crop.temp_max * d /\ crop.temp_optimal_max < crop.temp_max)
              => ret = FromInt(60)
        /\ (below \/ above) /\ ret = FromInt(60)
              => n = crop.temp_min * d \/ n = crop.temp_max * d

\* a catalog crop at its temp_max has scored 60
C23_Witness ==
  /\ returned("calculate_temperature_score")
  /\ args.crop \in Range(CROPS_DATA)
  /\ args.avg_temp = FromInt(args.crop.temp_max)
  /\ args.crop.temp_optimal_max < args.crop.temp_max
  /\ ret = FromInt(60)

\* the season multipliers of the water requirement
C24_Multiplier == [Kharif |-> Rat(85, 100), Rabi |-> Rat(95, 100), Zaid |-> Rat(110, 100)]

\* the ratio of the available water to the adjusted requirement
C24_Ratio(crop, expected_rainfall, irrigation_available, season) ==
  RatDiv(RatAdd(expected_rainfall, FromInt(IF irrigation_available THEN 50 ELSE 0)),
         RatMul(FromInt(crop.water_requirement_mm), C24_Multiplier[season]))

\* the score of a ratio by drought tolerance
C24_Band(ratio, drought_tolerance) ==
  IF RatGE(ratio, FromInt(1)) THEN 100
  ELSE IF RatGE(ratio, Rat(8, 10))
    THEN [High |-> 90, Moderate |-> 75, Low |-> 60][drought_tolerance]
  ELSE IF RatGE(ratio, Rat(6, 10))
    THEN [High |-> 75, Moderate |-> 50, Low |-> 30][drought_tolerance]
  ELSE [High |-> 50, Moderate |-> 0, Low |-> 0][drought_tolerance]

\* C24: calculate_water_score computes ratio = (expected rainfall + 50 if
\* irrigation is available) / (water requirement * season multiplier: Kharif
\* 0.85, Rabi 0.95, Zaid 1.10) and returns 100 for ratio >= 1.0; 90, 75, 60
\* (High, Moderate, Low drought tolerance) for ratio in [0.8, 1.0); 75, 50, 30
\* for ratio in [0.6, 0.8); 50 for High and 0 otherwise below 0.6.
C24_WaterScoreBands ==
  (/\ fn = "calculate_water_score"
   /\ args.season \in SEASONS
   /\ args.crop.water_requirement_mm > 0)
  => \A i \in DOMAIN ret :
       ret[i].score = C24_Band(C24_Ratio(args.crop, ret[i].expected_rainfall,
                                         args.irrigation_available, args.season),
                               args.crop.drought_tolerance)

\* the soil texture and a suitable texture have a part in common
C25_SharesToken(texture, suitable) ==
  \E i \in DOMAIN texture, j \in DOMAIN suitable : texture[i] = suitable[j]

C26_FallbackUnreachable ==
  /\ returned("detect_season") => ret.branch \in {1, 2, 3}
  /\ \A date \in [month : 1..12, day : 1..31] : detect_season_branch(date) \in {1, 2, 3}

\* the last day of May has been classified by the third branch, Zaid
C26_Witness ==
  /\ returned("detect_season")
  /\ args.date = [month |-> 5, day |-> 31]
  /\ ret.branch = 3
  /\ ret.season = "Zaid"

\* C27: for the same feature-augmented series and the same planning_days,
\* the expected_rainfall_mm of forecast_days_17_90 equals the
\* expected_rainfall_mm of every recommendation of recommend_crops: in a
\* successful /recommend response the medium range forecast and every
\* recommended crop report the same expected rainfall.
C27_SameExpectedRainfall ==
  (fn = "recommend" /\ pc = "return" /\ ret.status_code = 200)
  => \A i \in DOMAIN ret.recommended_crops :
       ret.recommended_crops[i].expected_rainfall_mm =
         ret.medium_range_forecast.expected_rainfall_mm

\* a response for sixteen hot days without rain: the forecast and the
\* recommended crops report 135.0 mm, the 1.5 mm floor times 90 days
C27_Witness ==
  /\ fn = "recommend" /\ pc = "return" /\ ret.status_code = 200
  /\ ret.medium_range_forecast.expected_avg_temp = 3100
  /\ ret.medium_range_forecast.expected_rainfall_mm = 1350
  /\ ret.recommended_crops # <<>>
  /\ \A i \in DOMAIN ret.recommended_crops :
       ret.recommended_crops[i].expected_rainfall_mm = 1350

\* C28: for each of the three seasons detect_season can return, the catalog
\* holds at least one eligible crop, so recommend_crops called with that
\* season and no region or soil filter returns a non-empty list.
C28_EverySeasonHasCrops ==
  (/\ returned("recommend_crops")
   /\ args.season \in {"Kharif", "Rabi", "Zaid"}
   /\ args.region_id = "None"
   /\ args.soil = NoSoil)
  => ret # <<>>


\* the season that follows a season in the cycle Kharif -> Rabi -> Zaid ->
\* Kharif
C29_Following == ("Kharif" :> "Rabi") @@ ("Rabi" :> "Zaid") @@ ("Zaid" :> "Kharif")

\* C29: in every successful /recommend response whose season.is_transition
\* is true, season.next_season is the season that follows season.current in
\* the cycle Kharif -> Rabi -> Zaid -> Kharif, whether the season was
\* detected from the date or supplied in the request
C29_NextSeasonFollowsCurrent ==
  (/\ fn = "recommend" /\ pc = "return" /\ ret.status_code = 200
   /\ ret.season.is_transition)
  => ret.season.next_season = C29_Following[ret.season.current]


\* two series with the same temperature and dry-spell statistics, the
\* second with the higher mean daily rainfall
C30_HigherMean(lower, higher) ==
  /\ mean(temp_avg_column(lower)) = mean(temp_avg_column(higher))
  /\ max_of(dry_spell_column(lower)) = max_of(dry_spell_column(higher))
  /\ RatLT(mean(rainfall_column(lower)), mean(rainfall_column(higher)))

\* the series of as many days as df, every day of one kind, for a df of at
\* most MaxBlockLen days
C30_UniformSeries(df) ==
  {add_agri_features(Block(day, n)) :
     day \in DayKinds \cup RainfallContrastDayKinds, n \in {Len(df)} \cap (1..MaxBlockLen)}

\* the water sub-score of every eligible crop is no lower for the expected
\* rainfall hi than for the expected rainfall lo
C30_WaterScoreNeverLower(crops, lo, hi, irrigation_available, season) ==
  \A i \in DOMAIN crops :
    calculate_water_score(crops[i], hi, irrigation_available, season)
      >= calculate_water_score(crops[i], lo, irrigation_available, season)

\* against the recommendations recs computed for the series lower, the
\* series higher yields no lower expected_rainfall_mm and no lower water
\* sub-score
C30_NeverLower(recs, lower, higher) ==
  /\ \A i \in DOMAIN recs :
       recs[i].expected_rainfall_mm
         <= RoundTo(weather_statistics(higher, args.planning_days).expected_rainfall, 10)
  /\ C30_WaterScoreNeverLower(eligible_crops(args.season, args.region_id, args.soil),
       weather_statistics(lower, args.planning_days).expected_rainfall,
       weather_statistics(higher, args.planning_days).expected_rainfall,
       args.irrigation_available, args.season)

\* C30: for a fixed planning horizon, season, irrigation flag and crop, a
\* series with a higher mean daily rainfall and the same temperature and
\* dry-spell statistics never yields a lower expected_rainfall_mm or a lower
\* water sub-score than the series recommend_crops was called with
C30_MonotoneInMeanRainfall ==
  returned("recommend_crops") =>
    \A other \in C30_UniformSeries(args.weather_df) :
      C30_HigherMean(args.weather_df, other) => C30_NeverLower(ret, args.weather_df, other)

\* the lower mean is below 0.5 mm a day, where the climatological fallback
\* of 1.5 mm a day replaces it, and the higher mean is at least 0.5 mm and
\* below 1.5 mm
C30_AcrossFallback(lower, higher) ==
  /\ RatLT(mean(rainfall_column(lower)), Rat(5, 10))
  /\ RatGE(mean(rainfall_column(higher)), Rat(5, 10))
  /\ RatLT(mean(rainfall_column(higher)), Rat(15, 10))

\* C30, amended: the same, for every pair of series except those where the
\* mean of the lower series is below 0.5 mm a day and the mean of the higher
\* series is at least 0.5 mm and below 1.5 mm a day
C30_MonotoneOutsideFallback ==
  returned("recommend_crops") =>
    \A other \in C30_UniformSeries(args.weather_df) :
      (C30_HigherMean(args.weather_df, other) /\ ~C30_AcrossFallback(args.weather_df, other))
        => C30_NeverLower(ret, args.weather_df, other)

\* eight mild days with 3 mm, Kharif, no irrigation, 90 days: 270.0 mm for
\* every crop, and 75 for BAJRA_01, where eight mild days with 3.5 mm give
\* 315.0 mm and 90
C30_Witness ==
  /\ returned("recommend_crops")
  /\ args.season = "Kharif" /\ ~args.irrigation_available /\ args.planning_days = 90
  /\ \E other \in C30_UniformSeries(args.weather_df) :
       /\ C30_HigherMean(args.weather_df, other)
       /\ ~C30_AcrossFallback(args.weather_df, other)
       /\ \E i \in DOMAIN ret, crop \in AllCrops :
            /\ crop.crop_id = "BAJRA_01"
            /\ ret[i].crop_id = crop.crop_id
            /\ ret[i].expected_rainfall_mm = 2700
            /\ calculate_water_score(crop,
                 weather_statistics(args.weather_df, 90).expected_rainfall,
                 FALSE, "Kharif") = 75
            /\ calculate_water_score(crop,
                 weather_statistics(other, 90).expected_rainfall, FALSE, "Kharif") = 90

============================================================================
